---- MODULE Spec2Model ----
(***************************************************************************)
(* Model of the skill-bundle verification engine (src/verification.py).    *)
(*                                                                         *)
(* A Python str is a sequence of one-character strings.  A YAML value is a *)
(* tagged record.  A bundle is the directory tree verify_skill_directory   *)
(* reads, together with what yaml.safe_load returns for its frontmatter.   *)
(***************************************************************************)
EXTENDS Integers, Sequences, FiniteSets, TLC

----------------------------------------------------------------------------
(* Characters and Python str operations.                                   *)

Lower == {"a","b","c","d","e","f","g","h","i","j","k","l","m",
          "n","o","p","q","r","s","t","u","v","w","x","y","z"}
Upper == {"A","B","C","D","E","F","G","H","I","J","K","L","M",
          "N","O","P","Q","R","S","T","U","V","W","X","Y","Z"}
Digit == {"0","1","2","3","4","5","6","7","8","9"}
Space == {" ", "\t"}
\* The backquote character (a TLA+ string cannot hold it).
BQ == "bq"

\* The characters of the model in code-point order (Python compares str,
\* and so Path, by code point).
CodePoints ==
    << "\t", " ", "#", "+", "-", ".", "/",
       "0","1","2","3","4","5","6","7","8","9", ":", "@",
       "A","B","C","D","E","F","G","H","I","J","K","L","M",
       "N","O","P","Q","R","S","T","U","V","W","X","Y","Z",
       "_", BQ,
       "a","b","c","d","e","f","g","h","i","j","k","l","m",
       "n","o","p","q","r","s","t","u","v","w","x","y","z" >>

Ord(c) == CHOOSE i \in 1..Len(CodePoints) : CodePoints[i] = c

\* str.lower() on one character, then on a string.
LowerChar(c) == IF c \in Upper THEN CodePoints[Ord(c) + (Ord("a") - Ord("A"))] ELSE c
ToLower(s) == [i \in 1..Len(s) |-> LowerChar(s[i])]

RECURSIVE LStrip(_)
LStrip(s) == IF s # <<>> /\ Head(s) \in Space THEN LStrip(Tail(s)) ELSE s

RECURSIVE RStrip(_)
RStrip(s) ==
    IF s # <<>> /\ s[Len(s)] \in Space THEN RStrip(SubSeq(s, 1, Len(s) - 1)) ELSE s

\* str.strip()
Strip(s) == RStrip(LStrip(s))

\* str.startswith / str.endswith / `sub in s`
StartsWith(s, p) == Len(s) >= Len(p) /\ SubSeq(s, 1, Len(p)) = p
EndsWith(s, p) == Len(s) >= Len(p) /\ SubSeq(s, Len(s) - Len(p) + 1, Len(s)) = p
Contains(s, sub) ==
    \E i \in 1..(Len(s) - Len(sub) + 1) : SubSeq(s, i, i + Len(sub) - 1) = sub

\* re.search(r"\d", s)
HasDigit(s) == \E i \in 1..Len(s) : s[i] \in Digit

\* n copies of the character c
Rep(c, n) == [i \in 1..n |-> c]

\* sequence helpers
Last(s) == s[Len(s)]
Front(s) == SubSeq(s, 1, Len(s) - 1)

RECURSIVE Flatten(_)
Flatten(ss) == IF ss = <<>> THEN <<>> ELSE Head(ss) \o Flatten(Tail(ss))

\* lexicographic order on strings, by code point (str.__lt__)
RECURSIVE StrLess(_, _)
StrLess(a, b) ==
    IF b = <<>> THEN FALSE
    ELSE IF a = <<>> THEN TRUE
    ELSE IF Head(a) = Head(b) THEN StrLess(Tail(a), Tail(b))
    ELSE Ord(Head(a)) < Ord(Head(b))

----------------------------------------------------------------------------
(* YAML values, as yaml.safe_load builds them.                             *)

Absent == [t |-> "absent"]                 \* the key is not in the mapping
None == [t |-> "none"]                     \* Python None (YAML null)
PyStr(s) == [t |-> "str", v |-> s]
PyInt(n) == [t |-> "int", v |-> n]
PyList(xs) == [t |-> "list", v |-> xs]       \* xs: a sequence of values
PyDict(kvs) == [t |-> "map", v |-> kvs]       \* kvs: a sequence of [k, v], in dict order

IsStr(x) == x.t = "str"
IsList(x) == x.t = "list"
IsDict(x) == x.t = "map"

\* dict.get(key) on the frontmatter record: None when the key is absent
Get(d, key) == IF d[key].t = "absent" THEN None ELSE d[key]

\* dict.get(key) on a nested mapping (a sequence of key/value pairs)
KeyIs(k, key) == k.t = "str" /\ k.v = key
MapGet(m, key) ==
    IF \E i \in 1..Len(m.v) : KeyIs(m.v[i].k, key)
    THEN m.v[CHOOSE i \in 1..Len(m.v) : KeyIs(m.v[i].k, key)].v
    ELSE None

\* Python raises TypeError on `x in {...}` when x is unhashable
Hashable(x) == x.t \notin {"list", "map"}

\* str(n) for a natural number
RECURSIVE ToDec(_)
ToDec(n) ==
    IF n < 10 THEN << CodePoints[Ord("0") + n] >>
    ELSE ToDec(n \div 10) \o << CodePoints[Ord("0") + (n % 10)] >>

\* the text an f-string renders for a value used as a metadata key
KeyText(k) == IF k.t = "str" THEN k.v ELSE IF k.t = "int" THEN ToDec(k.v) ELSE <<"?">>

----------------------------------------------------------------------------
(* Findings (VerificationIssue).  `message` is the message of the source   *)
(* with ' for the backquote and {} for each interpolated value; `args` are *)
(* the interpolated values, in order.                                      *)

Error(msg, args) == [level |-> "error", message |-> msg, args |-> args]
Warning(msg, args) == [level |-> "warning", message |-> msg, args |-> args]

When(cond, findings) == IF cond THEN findings ELSE <<>>

\* VerificationResult.errors / .warnings / .spec_errors / .spec_warnings
ErrorsOf(list) == SelectSeq(list, LAMBDA f : f.level = "error")
WarningsOf(list) == SelectSeq(list, LAMBDA f : f.level = "warning")

----------------------------------------------------------------------------
(* Field rules.  Each operator is the sequence of findings the function    *)
(* of the same name appends, in the order it appends them.                 *)

NameChars == Lower \cup Digit \cup {"-"}
MaxNameLen == 64
MaxDescriptionLen == 1024
ShortDescriptionLen == 20
MaxCompatibilityLen == 500

\* NAME_RE.fullmatch(value)
NameReFullmatch(s) ==
    /\ Len(s) >= 1
    /\ Len(s) <= MaxNameLen
    /\ \A i \in 1..Len(s) : s[i] \in NameChars

MsgNameRequired == "Frontmatter field 'name' is required and must be a string."
MsgNameLength == "'name' must be 1-64 characters."
MsgNameChars == "'name' must contain only lowercase letters, numbers, and hyphens."
MsgNameEdge == "'name' must not start or end with '-'."
MsgNameDouble == "'name' must not contain consecutive hyphens ('--')."
MsgNameParent == "'name' ({}) must match the parent directory name ({})."

ValidateName(value, parent_dir_name) ==
    IF ~IsStr(value) THEN << Error(MsgNameRequired, <<>>) >>
    ELSE
        When(Len(value.v) = 0 \/ Len(value.v) > MaxNameLen, << Error(MsgNameLength, <<>>) >>)
        \o When(~NameReFullmatch(value.v), << Error(MsgNameChars, <<>>) >>)
        \o When(StartsWith(value.v, <<"-">>) \/ EndsWith(value.v, <<"-">>),
                << Error(MsgNameEdge, <<>>) >>)
        \o When(Contains(value.v, <<"-", "-">>), << Error(MsgNameDouble, <<>>) >>)
        \o When(value.v # parent_dir_name,
                << Error(MsgNameParent, << value.v, parent_dir_name >>) >>)

\* _validate_name_spec without the comparison with the directory name
ValidateNameSpecNoParent(value, parent_dir_name) ==
    IF ~IsStr(value) THEN << Error(MsgNameRequired, <<>>) >>
    ELSE
        When(Len(value.v) = 0 \/ Len(value.v) > MaxNameLen, << Error(MsgNameLength, <<>>) >>)
        \o When(~NameReFullmatch(value.v), << Error(MsgNameChars, <<>>) >>)
        \o When(StartsWith(value.v, <<"-">>) \/ EndsWith(value.v, <<"-">>),
                << Error(MsgNameEdge, <<>>) >>)
        \o When(Contains(value.v, <<"-", "-">>), << Error(MsgNameDouble, <<>>) >>)

ValidateNameSpec(value, parent_dir_name) ==
    IF ~IsStr(value) THEN << Error(MsgNameRequired, <<>>) >>
    ELSE
        When(Len(value.v) = 0 \/ Len(value.v) > MaxNameLen, << Error(MsgNameLength, <<>>) >>)
        \o When(~NameReFullmatch(value.v), << Error(MsgNameChars, <<>>) >>)
        \o When(StartsWith(value.v, <<"-">>) \/ EndsWith(value.v, <<"-">>),
                << Error(MsgNameEdge, <<>>) >>)
        \o When(Contains(value.v, <<"-", "-">>), << Error(MsgNameDouble, <<>>) >>)
        \o When(value.v # parent_dir_name,
                << Error(MsgNameParent, << value.v, parent_dir_name >>) >>)

MsgDescRequired == "Frontmatter field 'description' is required and must be a string."
MsgDescLength == "'description' must be non-empty and at most 1024 characters."
MsgDescShort == "'description' is very short; Agent Skills spec recommends describing what the skill does and when to use it."
MsgDescShortSpec == "'description' is very short; include what the skill does and when to use it."

ValidateDescription(value) ==
    IF ~IsStr(value) THEN << Error(MsgDescRequired, <<>>) >>
    ELSE LET length == Len(Strip(value.v)) IN
        IF length = 0 \/ length > MaxDescriptionLen THEN << Error(MsgDescLength, <<>>) >>
        ELSE IF length < ShortDescriptionLen THEN << Warning(MsgDescShort, <<>>) >>
        ELSE <<>>

\* the spec rule measuring the value as written, blanks included
ValidateDescriptionSpecUntrimmed(value) ==
    IF ~IsStr(value) THEN << Error(MsgDescRequired, <<>>) >>
    ELSE LET length == Len(value.v) IN
        IF length = 0 \/ length > MaxDescriptionLen THEN << Error(MsgDescLength, <<>>) >>
        ELSE IF length < ShortDescriptionLen THEN << Warning(MsgDescShortSpec, <<>>) >>
        ELSE <<>>

ValidateDescriptionSpec(value) ==
    IF ~IsStr(value) THEN << Error(MsgDescRequired, <<>>) >>
    ELSE LET length == Len(Strip(value.v)) IN
        IF length = 0 \/ length > MaxDescriptionLen THEN << Error(MsgDescLength, <<>>) >>
        ELSE IF length < ShortDescriptionLen THEN << Warning(MsgDescShortSpec, <<>>) >>
        ELSE <<>>

MsgMustBeString == "'{}' must be a string if provided."
MsgCompatLength == "'compatibility' must be 1-500 characters if provided."
MsgTooLong == "'{}' must be at most {} characters."
KeyLicense == <<"l","i","c","e","n","s","e">>
KeyCompatibility == <<"c","o","m","p","a","t","i","b","i","l","i","t","y">>

\* max_len is None or PyInt(n)
ValidateOptionalStringField(key, value, max_len) ==
    IF value.t = "none" THEN <<>>
    ELSE IF ~IsStr(value) THEN << Error(MsgMustBeString, << key >>) >>
    ELSE LET trimmed == Strip(value.v) IN
        IF key = KeyCompatibility /\ Len(trimmed) = 0
        THEN << Error(MsgCompatLength, <<>>) >>
        ELSE When(max_len.t # "none" /\ Len(trimmed) > max_len.v,
                  << Error(MsgTooLong, << key, ToDec(max_len.v) >>) >>)

ValidateOptionalStringFieldSpec(key, value, max_len) ==
    IF value.t = "none" THEN <<>>
    ELSE IF ~IsStr(value) THEN << Error(MsgMustBeString, << key >>) >>
    ELSE LET trimmed == Strip(value.v) IN
        IF key = KeyCompatibility /\ Len(trimmed) = 0
        THEN << Error(MsgCompatLength, <<>>) >>
        ELSE When(max_len.t # "none" /\ Len(trimmed) > max_len.v,
                  << Error(MsgTooLong, << key, ToDec(max_len.v) >>) >>)

MsgMetadataMapping == "'metadata' must be a key-value mapping if provided."
MsgMetadataKeys == "'metadata' keys must be strings."
MsgMetadataStructured == "'metadata.{}' is structured (non-string). Agent Skills spec prefers string metadata values, but this workflow currently allows richer metadata."
MsgMetadataStructuredSpec == "'metadata.{}' is structured (non-string). Spec-oriented tooling may expect string metadata values."

ValidateMetadata(value) ==
    IF value.t = "none" THEN <<>>
    ELSE IF ~IsDict(value) THEN << Error(MsgMetadataMapping, <<>>) >>
    ELSE Flatten([i \in 1..Len(value.v) |->
            When(~IsStr(value.v[i].k), << Error(MsgMetadataKeys, <<>>) >>)
            \o When(~IsStr(value.v[i].v),
                    << Warning(MsgMetadataStructured, << KeyText(value.v[i].k) >>) >>)])

ValidateMetadataSpec(value) ==
    IF value.t = "none" THEN <<>>
    ELSE IF ~IsDict(value) THEN << Error(MsgMetadataMapping, <<>>) >>
    ELSE Flatten([i \in 1..Len(value.v) |->
            When(~IsStr(value.v[i].k), << Error(MsgMetadataKeys, <<>>) >>)
            \o When(~IsStr(value.v[i].v),
                    << Warning(MsgMetadataStructuredSpec, << KeyText(value.v[i].k) >>) >>)])

MsgToolsString == "'allowed-tools' must be a space-delimited string if provided."
MsgToolsEmpty == "'allowed-tools' must not be empty if provided."

ValidateAllowedTools(value) ==
    IF value.t = "none" THEN <<>>
    ELSE IF ~IsStr(value) THEN << Error(MsgToolsString, <<>>) >>
    ELSE When(Len(Strip(value.v)) = 0, << Error(MsgToolsEmpty, <<>>) >>)

ValidateAllowedToolsSpec(value) ==
    IF value.t = "none" THEN <<>>
    ELSE IF ~IsStr(value) THEN << Error(MsgToolsString, <<>>) >>
    ELSE When(Len(Strip(value.v)) = 0, << Error(MsgToolsEmpty, <<>>) >>)

\* _is_non_empty_string_list
IsNonEmptyStringList(value) ==
    /\ IsList(value)
    /\ Len(value.v) > 0
    /\ \A i \in 1..Len(value.v) : IsStr(value.v[i]) /\ Strip(value.v[i].v) # <<>>

----------------------------------------------------------------------------
(* Paths.  A path is the sequence of its parts, each part a str.           *)

RECURSIVE SplitSlash(_, _)
\* s.split("/"), with `cur` the segment being read
SplitSlash(s, cur) ==
    IF s = <<>> THEN << cur >>
    ELSE IF Head(s) = "/" THEN << cur >> \o SplitSlash(Tail(s), <<>>)
    ELSE SplitSlash(Tail(s), Append(cur, Head(s)))

\* Path(s).is_absolute() on POSIX
IsAbsolute(s) == s # <<>> /\ Head(s) = "/"

\* Path(s).parts: empty and "." segments are dropped, the root is the part "/"
PathParts(s) ==
    (IF IsAbsolute(s) THEN << <<"/">> >> ELSE <<>>)
    \o SelectSeq(SplitSlash(s, <<>>), LAMBDA seg : seg # <<>> /\ seg # <<".">>)

\* "/".join(parts), Path.as_posix() of a relative path
RECURSIVE AsPosix(_)
AsPosix(parts) ==
    IF parts = <<>> THEN <<".">>
    ELSE IF Len(parts) = 1 THEN Head(parts)
    ELSE Head(parts) \o <<"/">> \o AsPosix(Tail(parts))

\* Path.suffix: from the last "." of the last part, unless that is its first character
Suffix(parts) ==
    IF parts = <<>> THEN <<>>
    ELSE LET name == Last(parts)
             dots == {i \in 2..Len(name) : name[i] = "."}
         IN IF dots = {} \/ Last(name) = "." THEN <<>>
            ELSE LET i == CHOOSE d \in dots : \A e \in dots : e <= d
                 IN SubSeq(name, i, Len(name))

\* order of Path objects: part by part
RECURSIVE PathLess(_, _)
PathLess(p, q) ==
    IF q = <<>> THEN FALSE
    ELSE IF p = <<>> THEN TRUE
    ELSE IF Head(p) = Head(q) THEN PathLess(Tail(p), Tail(q))
    ELSE StrLess(Head(p), Head(q))

\* sorted(files), files a set of file records with distinct paths
RECURSIVE SortedFiles(_)
SortedFiles(files) ==
    IF files = {} THEN <<>>
    ELSE LET m == CHOOSE f \in files :
                      \A g \in files : g = f \/ PathLess(f.parts, g.parts)
         IN << m >> \o SortedFiles(files \ {m})

----------------------------------------------------------------------------
(* Names of the source.                                                    *)

SkillMd == <<"S","K","I","L","L",".","m","d">>
DsStore == <<".","D","S","_","S","t","o","r","e">>
References == <<"r","e","f","e","r","e","n","c","e","s">>
Scripts == <<"s","c","r","i","p","t","s">>
Assets == <<"a","s","s","e","t","s">>
Agents == <<"a","g","e","n","t","s">>

OPTIONAL_DIRS == << Scripts, References, Assets >>
WORKFLOW_ALLOWED_TOPLEVEL == {SkillMd, References, Scripts, Assets, Agents}
WORKFLOW_REFERENCE_TAXONOMY ==
    { <<"a","p","i">>, <<"h","o","o","k","s">>, <<"t","y","p","e","s">>,
      <<"p","a","t","t","e","r","n","s">>,
      <<"a","r","c","h","i","t","e","c","t","u","r","e">>,
      <<"p","e","r","f","o","r","m","a","n","c","e">>,
      <<"m","i","g","r","a","t","i","o","n">>,
      <<"v","a","l","i","d","a","t","i","o","n">>,
      <<"e","x","a","m","p","l","e","s">>, <<"m","i","s","c">> }

----------------------------------------------------------------------------
(* The bundle on disk.  A bundle b is a record:                            *)
(*   root      "dir", "file" or "missing": what skill_dir is               *)
(*   manifest  [kind, read, lines]: SKILL.md; kind is "absent", "dir" or   *)
(*             "file"; read is the outcome of read_text ("ok",             *)
(*             "undecodable", "oserror"); lines is text.splitlines()       *)
(*   refs      [kind, files]: the entry `references`; files is the set of  *)
(*             [parts, kind, read, nlines] below it, parts relative to the *)
(*             bundle root and nlines the length of its splitlines()       *)
(*   others    the other top-level entries [name, kind], in iterdir order  *)
(*   outside   the absolute paths (as parts) that are files outside        *)
(*   yaml      what yaml.safe_load does with the frontmatter block:        *)
(*             "error", "scalar", "list", "none" or "mapping"              *)
(*   name .. activation   the values of the mapping it returns             *)

FrontmatterKeys ==
    {"name", "description", "license", "compatibility", "metadata",
     "allowed-tools", "triggers", "references", "activation"}

\* the mapping yaml.safe_load returns (keys the code never reads are left out)
ParsedMapping(b) ==
    [key \in FrontmatterKeys |-> IF key = "allowed-tools" THEN b.allowed_tools ELSE b[key]]

\* skill_dir.iterdir()
TopEntries(b) ==
    When(b.manifest.kind # "absent", << [name |-> SkillMd, kind |-> b.manifest.kind] >>)
    \o When(b.refs.kind # "absent", << [name |-> References, kind |-> b.refs.kind] >>)
    \o b.others

TopKind(b, name) ==
    LET es == TopEntries(b) IN
    IF \E i \in 1..Len(es) : es[i].name = name
    THEN es[CHOOSE i \in 1..Len(es) : es[i].name = name].kind
    ELSE "none"

IsPrefix(p, q) == Len(p) < Len(q) /\ SubSeq(q, 1, Len(p)) = p

\* what is at `path` (parts, relative to the bundle root, no ".."): "file", "dir", "none"
NodeKind(b, path) ==
    IF path = <<>> THEN "dir"
    ELSE IF Len(path) = 1 THEN TopKind(b, path[1])
    ELSE IF path[1] # References \/ b.refs.kind # "dir" THEN "none"
    ELSE IF \E f \in b.refs.files : f.parts = path
         THEN (CHOOSE f \in b.refs.files : f.parts = path).kind
    ELSE IF \E f \in b.refs.files : IsPrefix(path, f.parts) THEN "dir"
    ELSE "none"

\* the operating system resolving `rest` from directory `cur` inside the bundle;
\* the bundle's parent directory holds nothing but the bundle
RECURSIVE Walk(_, _, _, _)
Walk(b, dirname, cur, rest) ==
    IF rest = <<>> THEN cur
    ELSE IF cur.st = "none" THEN cur
    ELSE IF cur.st = "out" THEN
        IF Head(rest) = dirname
        THEN Walk(b, dirname, [st |-> "in", path |-> <<>>], Tail(rest))
        ELSE [st |-> "none", path |-> <<>>]
    ELSE IF NodeKind(b, cur.path) # "dir" THEN [st |-> "none", path |-> <<>>]
    ELSE IF Head(rest) = <<".", ".">> THEN
        IF cur.path = <<>>
        THEN Walk(b, dirname, [st |-> "out", path |-> <<>>], Tail(rest))
        ELSE Walk(b, dirname, [st |-> "in", path |-> Front(cur.path)], Tail(rest))
    ELSE Walk(b, dirname, [st |-> "in", path |-> Append(cur.path, Head(rest))], Tail(rest))

\* (skill_dir / Path(ref)).exists() and .is_file()
ResolvedKind(b, dirname, ref) ==
    IF IsAbsolute(ref)
    THEN (IF PathParts(ref) \in b.outside THEN "file" ELSE "none")
    ELSE LET w == Walk(b, dirname, [st |-> "in", path |-> <<>>], PathParts(ref))
         IN IF w.st = "in" THEN NodeKind(b, w.path)
            ELSE IF w.st = "out" THEN "dir"
            ELSE "none"

----------------------------------------------------------------------------
(* Rules on the directory and on the manifest text.                        *)

MsgNotADirectory == "'{}' exists but is not a directory."

ValidateOptionalDirs(b) ==
    Flatten([i \in 1..Len(OPTIONAL_DIRS) |->
        When(TopKind(b, OPTIONAL_DIRS[i]) \notin {"none", "dir"},
             << Error(MsgNotADirectory, << OPTIONAL_DIRS[i] >>) >>)])

MsgUnexpectedDir == "Unexpected top-level directory '{}'. Workflow convention expects SKILL.md plus optional scripts/references/assets/agents."
MsgUnexpectedFile == "Unexpected top-level file '{}'. Workflow convention prefers only 'SKILL.md' at skill root."

ValidateTopLevelLayout(b) ==
    LET es == TopEntries(b) IN
    Flatten([i \in 1..Len(es) |->
        IF es[i].name = DsStore THEN <<>>
        ELSE IF es[i].name \notin WORKFLOW_ALLOWED_TOPLEVEL
        THEN (IF es[i].kind = "dir"
              THEN << Warning(MsgUnexpectedDir, << es[i].name >>) >>
              ELSE << Warning(MsgUnexpectedFile, << es[i].name >>) >>)
        ELSE <<>>])

Delimiter == <<"-", "-", "-">>

\* _split_frontmatter: None, or the lines of the frontmatter and of the body
\* (each "\n".join of a slice of the lines)
SplitFrontmatter(lines) ==
    IF lines = <<>> \/ Strip(lines[1]) # Delimiter THEN [ok |-> FALSE, fm |-> <<>>, body |-> <<>>]
    ELSE LET closing == {i \in 2..Len(lines) : Strip(lines[i]) = Delimiter} IN
        IF closing = {} THEN [ok |-> FALSE, fm |-> <<>>, body |-> <<>>]
        ELSE LET idx == CHOOSE i \in closing : \A j \in closing : i <= j
             IN [ok |-> TRUE,
                 fm |-> SubSeq(lines, 2, idx - 1),
                 body |-> SubSeq(lines, idx + 1, Len(lines))]

\* ("\n".join(ls)).splitlines(): a final empty line is lost
JoinedSplitlines(ls) == IF ls # <<>> /\ Last(ls) = <<>> THEN Front(ls) ELSE ls

\* bool(("\n".join(ls)).strip())
JoinedNonBlank(ls) == \E i \in 1..Len(ls) : Strip(ls[i]) # <<>>

\* re.match(r"^\s*-\s+@", line)
MatchesAtItem(line) ==
    LET t == LStrip(line) IN
    /\ t # <<>> /\ Head(t) = "-"
    /\ Tail(t) # <<>> /\ Head(Tail(t)) \in Space
    /\ LStrip(Tail(t)) # <<>> /\ Head(LStrip(Tail(t))) = "@"

MsgYamlSafety == "YAML frontmatter safety rule violated: quote trigger/scalar values starting with '@' (use '- \"@pkg/name\"')."

ValidateYamlFrontmatterSafety(frontmatter_lines) ==
    LET ls == JoinedSplitlines(frontmatter_lines) IN
    Flatten([i \in 1..Len(ls) |->
        When(MatchesAtItem(ls[i]), << Error(MsgYamlSafety, <<>>) >>)])

----------------------------------------------------------------------------
(* Workflow (strict-only) rules.  A rule that can raise gives a record     *)
(* [findings, raised]: the findings appended before it returned or raised, *)
(* and the exception that left it ("none" when it returned).               *)

Ok(findings) == [findings |-> findings, raised |-> "none"]
Raise(findings, exc) == [findings |-> findings, raised |-> exc]

\* statements run one after the other: an exception skips the rest
RECURSIVE Chain(_)
Chain(rs) ==
    IF rs = <<>> THEN Ok(<<>>)
    ELSE IF Head(rs).raised # "none" THEN Head(rs)
    ELSE LET rest == Chain(Tail(rs))
         IN [findings |-> Head(rs).findings \o rest.findings, raised |-> rest.raised]

KeyMode == <<"m","o","d","e">>
KeyTriggers == <<"t","r","i","g","g","e","r","s">>
KeyPriority == <<"p","r","i","o","r","i","t","y">>
ModeStrict == <<"s","t","r","i","c","t">>
ModeFuzzy == <<"f","u","z","z","y">>
PriorityNormal == <<"n","o","r","m","a","l">>
PriorityHigh == <<"h","i","g","h">>

MsgActivationRequired == "Workflow gate: 'activation' is required and must be a mapping with 'mode', 'triggers', and 'priority'."
MsgActivationMode == "Workflow gate: 'activation.mode' must be 'strict' or 'fuzzy'."
MsgActivationTriggers == "Workflow gate: 'activation.triggers' must be a non-empty list of strings."
MsgActivationPriority == "Workflow gate: 'activation.priority' must be 'normal' or 'high'."

\* `x not in {a, b}` for a set of str: TypeError when x is unhashable
NotInStrSet(x, strs, msg) ==
    IF ~Hashable(x) THEN Raise(<<>>, "TypeError")
    ELSE Ok(When(~(IsStr(x) /\ x.v \in strs), << Error(msg, <<>>) >>))

ValidateActivation(frontmatter) ==
    LET activation == Get(frontmatter, "activation") IN
    IF ~IsDict(activation) THEN Ok(<< Error(MsgActivationRequired, <<>>) >>)
    ELSE Chain(<<
        NotInStrSet(MapGet(activation, KeyMode), {ModeStrict, ModeFuzzy}, MsgActivationMode),
        Ok(When(~IsNonEmptyStringList(MapGet(activation, KeyTriggers)),
                << Error(MsgActivationTriggers, <<>>) >>)),
        NotInStrSet(MapGet(activation, KeyPriority), {PriorityNormal, PriorityHigh},
                    MsgActivationPriority) >>)

KeyVersion == <<"v","e","r","s","i","o","n">>
MsgCompatRequired == "Workflow gate: version governance requires compatibility metadata (prefer top-level 'compatibility')."
MsgVersionUnpinned == "Workflow gate: version appears unpinned. Add at least one metadata '*version*' string (e.g., 'metadata.version: \"1.0\"' or dependency version pin)."

ValidateVersionAndCompatibility(frontmatter) ==
    LET metadata == Get(frontmatter, "metadata")
        compatibility == Get(frontmatter, "compatibility")
        metadata_compat ==
            IF IsDict(metadata) THEN MapGet(metadata, KeyCompatibility) ELSE None
        has_metadata_compat ==
            \/ IsStr(metadata_compat) /\ Strip(metadata_compat.v) # <<>>
            \/ IsDict(metadata_compat) /\ Len(metadata_compat.v) > 0
        pinned_by_metadata ==
            /\ IsDict(metadata)
            /\ \E i \in 1..Len(metadata.v) :
                LET k == metadata.v[i].k
                    v == metadata.v[i].v
                IN /\ IsStr(k) /\ Contains(ToLower(k.v), KeyVersion)
                   /\ IsStr(v) /\ Strip(v.v) # <<>>
                   /\ HasDigit(v.v)
        version_pinned ==
            \/ pinned_by_metadata
            \/ IsStr(compatibility) /\ HasDigit(compatibility.v)
    IN When(compatibility.t = "none" /\ ~has_metadata_compat,
            << Error(MsgCompatRequired, <<>>) >>)
       \o When(~version_pinned, << Error(MsgVersionUnpinned, <<>>) >>)

MsgTriggersRequired == "Workflow gate: 'triggers' is required and must be a non-empty list of strings."
MsgReferencesList == "Workflow gate: 'references' is required and must be a non-empty list of relative file paths."
MsgReferencesAbsolute == "'references' entry must be relative to the skill root, got absolute path: {}"
MsgReferencesTraverse == "'references' entry must not traverse outside the skill root: {}"
MsgReferencesNotFound == "'references' entry not found: {}"
MsgReferencesRequired == "Workflow gate: 'references' field is required in SKILL.md frontmatter."

\* the loop body without the test that the listed path exists
CheckListedReferenceNoExists(b, dirname, ref) ==
    IF IsAbsolute(ref) THEN << Error(MsgReferencesAbsolute, << ref >>) >>
    ELSE When(\E i \in 1..Len(PathParts(ref)) : PathParts(ref)[i] = <<".", ".">>,
              << Error(MsgReferencesTraverse, << ref >>) >>)

\* the loop over the listed references (lines 478-491)
CheckListedReference(b, dirname, ref) ==
    IF IsAbsolute(ref) THEN << Error(MsgReferencesAbsolute, << ref >>) >>
    ELSE IF \E i \in 1..Len(PathParts(ref)) : PathParts(ref)[i] = <<".", ".">>
    THEN << Error(MsgReferencesTraverse, << ref >>) >>
    ELSE When(ResolvedKind(b, dirname, ref) = "none",
              << Error(MsgReferencesNotFound, << ref >>) >>)

ValidateCustomFrontmatterConventions(frontmatter, b, dirname) ==
    LET triggers ==
            When(~IsNonEmptyStringList(Get(frontmatter, "triggers")),
                 << Error(MsgTriggersRequired, <<>>) >>)
        refs == frontmatter["references"]
        tail == Chain(<< ValidateActivation(frontmatter),
                         Ok(ValidateVersionAndCompatibility(frontmatter)) >>)
    IN IF refs.t # "absent" THEN
           IF ~IsNonEmptyStringList(refs)
           THEN Ok(triggers \o << Error(MsgReferencesList, <<>>) >>)
           ELSE Chain(<<
                    Ok(triggers \o Flatten([i \in 1..Len(refs.v) |->
                                      CheckListedReference(b, dirname, refs.v[i].v)])),
                    tail >>)
       ELSE Chain(<< Ok(triggers \o << Error(MsgReferencesRequired, <<>>) >>), tail >>)

----------------------------------------------------------------------------
(* _validate_references_taxonomy_and_sizes                                 *)

MaxReferenceLines == 800
MicroFileLines == 100
FragmentMinFiles == 5
FragmentMinMicro == 3
DotMd == <<".", "m", "d">>

MsgRefsDirMissing == "Workflow gate: 'references' field is present but 'references/' directory is missing."
MsgRefsMustBeDir == "'references' must be a directory when present."
MsgTaxonomyFolder == "Workflow gate: reference file must be under taxonomy folder 'references/<category>/...', got '{}'."
MsgTaxonomyCategory == "Workflow gate: invalid reference category '{}' in '{}'. Allowed: api, architecture, examples, hooks, migration, misc, patterns, performance, types, validation."
MsgRefUndecodable == "Reference file must be UTF-8 decodable: '{}'"
MsgRefTooLong == "Workflow gate: reference file exceeds 800 lines ({}): '{}'."
MsgEntryTaxonomy == "Workflow gate: 'references' entries must use taxonomy paths under 'references/<category>/...', got '{}'."
MsgEntryCategory == "Workflow gate: 'references' entry category '{}' is not allowed: '{}'."
MsgFragmentation == "Workflow gate: many reference files are under 100 lines. Check fragmentation guard and merge semantically related files where possible."

\* sorted(p for p in references_dir.rglob("*") if p.is_file()), the .md ones
MdReferenceFiles(b) ==
    SelectSeq(SortedFiles({f \in b.refs.files : f.kind = "file"}),
              LAMBDA f : ToLower(Suffix(f.parts)) = DotMd)

\* the taxonomy loop without the test of the category
CheckReferenceFileAnyCategory(f) ==
    IF Len(f.parts) < 3
    THEN Ok(<< Error(MsgTaxonomyFolder, << AsPosix(f.parts) >>) >>)
    ELSE IF f.read = "oserror" THEN Raise(<<>>, "OSError")
    ELSE IF f.read = "undecodable"
    THEN Ok(<< Error(MsgRefUndecodable, << AsPosix(f.parts) >>) >>)
    ELSE Ok(When(f.nlines > MaxReferenceLines,
                 << Error(MsgRefTooLong, << ToDec(f.nlines), AsPosix(f.parts) >>) >>))

\* the taxonomy loop going on to the next file after a category error
CheckReferenceFileCategoryContinue(f) ==
    IF Len(f.parts) < 3
    THEN Ok(<< Error(MsgTaxonomyFolder, << AsPosix(f.parts) >>) >>)
    ELSE IF f.parts[2] \notin WORKFLOW_REFERENCE_TAXONOMY
    THEN Ok(<< Error(MsgTaxonomyCategory, << f.parts[2], AsPosix(f.parts) >>) >>)
    ELSE IF f.read = "oserror" THEN Raise(<<>>, "OSError")
    ELSE IF f.read = "undecodable"
    THEN Ok(<< Error(MsgRefUndecodable, << AsPosix(f.parts) >>) >>)
    ELSE Ok(When(f.nlines > MaxReferenceLines,
                 << Error(MsgRefTooLong, << ToDec(f.nlines), AsPosix(f.parts) >>) >>))

\* one turn of the taxonomy loop (lines 361-384)
CheckReferenceFile(f) ==
    IF Len(f.parts) < 3
    THEN Ok(<< Error(MsgTaxonomyFolder, << AsPosix(f.parts) >>) >>)
    ELSE LET category ==
                 When(f.parts[2] \notin WORKFLOW_REFERENCE_TAXONOMY,
                      << Error(MsgTaxonomyCategory, << f.parts[2], AsPosix(f.parts) >>) >>)
         IN IF f.read = "oserror" THEN Raise(category, "OSError")
            ELSE IF f.read = "undecodable"
            THEN Ok(category \o << Error(MsgRefUndecodable, << AsPosix(f.parts) >>) >>)
            ELSE Ok(category \o
                    When(f.nlines > MaxReferenceLines,
                         << Error(MsgRefTooLong, << ToDec(f.nlines), AsPosix(f.parts) >>) >>))

\* one turn of the loop over the listed references (lines 388-402)
CheckListedTaxonomy(b, dirname, ref) ==
    IF ~IsStr(ref) \/ Strip(ref.v) = <<>> THEN <<>>
    ELSE IF ResolvedKind(b, dirname, ref.v) = "file" THEN
        LET parts == PathParts(ref.v) IN
        IF Len(parts) < 3 \/ parts[1] # References
        THEN << Error(MsgEntryTaxonomy, << ref.v >>) >>
        ELSE When(parts[2] \notin WORKFLOW_REFERENCE_TAXONOMY,
                  << Error(MsgEntryCategory, << parts[2], ref.v >>) >>)
    ELSE <<>>

\* max(3, n // 2)
MicroThreshold(n) == IF n \div 2 > FragmentMinMicro THEN n \div 2 ELSE FragmentMinMicro

\* the fragmentation guard (lines 405-416); a file that cannot be read raises
FragmentationGuard(md) ==
    LET unreadable == {i \in 1..Len(md) : md[i].read = "oserror"}
        micro == {i \in 1..Len(md) : md[i].read = "ok" /\ md[i].nlines < MicroFileLines}
    IN IF unreadable # {} THEN Raise(<<>>, "OSError")
       ELSE Ok(When(Len(md) >= FragmentMinFiles
                        /\ Cardinality(micro) >= MicroThreshold(Len(md)),
                    << Warning(MsgFragmentation, <<>>) >>))

ValidateReferencesTaxonomyAndSizes(b, dirname, frontmatter) ==
    LET refs_field == Get(frontmatter, "references")
        kind == TopKind(b, References)
    IN IF IsNonEmptyStringList(refs_field) /\ kind = "none"
       THEN Ok(<< Error(MsgRefsDirMissing, <<>>) >>)
       ELSE IF kind = "none" THEN Ok(<<>>)
       ELSE IF kind # "dir" THEN Ok(<< Error(MsgRefsMustBeDir, <<>>) >>)
       ELSE LET md == MdReferenceFiles(b)
            IN Chain(
                 [i \in 1..Len(md) |-> CheckReferenceFile(md[i])]
                 \o << Ok(IF IsList(refs_field)
                          THEN Flatten([i \in 1..Len(refs_field.v) |->
                                   CheckListedTaxonomy(b, dirname, refs_field.v[i])])
                          ELSE <<>>),
                       FragmentationGuard(md) >>)

----------------------------------------------------------------------------
(* _validate_brain_only_guidance and the scan that feeds it                *)

MaxBlockLines == 25
MaxCodeLines == 60
MaxManifestLines == 500
MinReferenceLines == 200
Fence == << BQ, BQ, BQ >>
WordExample == <<"e","x","a","m","p","l","e">>

MsgUnclosedFence == "SKILL.md contains an unclosed fenced code block."
MsgExampleSections == "Workflow gate: SKILL.md appears to contain example sections. Move examples into 'references/' files."
MsgFencedCode == "Workflow gate: SKILL.md contains fenced code blocks. Keep SKILL.md focused on critical rules and move examples/code to 'references/'."
MsgLargeCode == "Workflow gate: SKILL.md contains large code block(s). Prompt rules require examples/large code blocks to be moved to 'references/'."
MsgManifestRatio == "Workflow gate: SKILL.md is {} lines vs {} reference lines. Target ~10% per your builder prompt."
MsgNoBody == "SKILL.md has no Markdown body after frontmatter."
MsgManifestLong == "SKILL.md has {} lines; Agent Skills recommends keeping it under 500 lines."

\* the loop body with the closing fence counted as a line of code
ScanLineCountsFence(line, st) ==
    IF StartsWith(Strip(line), Fence) THEN
        IF ~st.in_code
        THEN [st EXCEPT !.in_code = TRUE, !.code_blocks = @ + 1,
                        !.current_block_lines = 0]
        ELSE [st EXCEPT !.in_code = FALSE,
                        !.code_lines = @ + 1,
                        !.max_block_lines =
                            IF st.current_block_lines + 1 > @
                            THEN st.current_block_lines + 1 ELSE @]
    ELSE IF st.in_code
    THEN [st EXCEPT !.code_lines = @ + 1, !.current_block_lines = @ + 1]
    ELSE st

\* the body of the loop over the lines (lines 427-438) for one line
ScanLine(line, st) ==
    IF StartsWith(Strip(line), Fence) THEN
        IF ~st.in_code
        THEN [st EXCEPT !.in_code = TRUE, !.code_blocks = @ + 1,
                        !.current_block_lines = 0]
        ELSE [st EXCEPT !.in_code = FALSE,
                        !.max_block_lines =
                            IF st.current_block_lines > @
                            THEN st.current_block_lines ELSE @]
    ELSE IF st.in_code
    THEN [st EXCEPT !.code_lines = @ + 1, !.current_block_lines = @ + 1]
    ELSE st

\* the loop over lines lo..hi, in order, from the counters in st (the range is
\* halved so that the evaluation stays shallow on a long manifest)
RECURSIVE ScanFences(_, _, _, _)
ScanFences(lines, lo, hi, st) ==
    IF lo > hi THEN st
    ELSE IF lo = hi THEN ScanLine(lines[lo], st)
    ELSE LET mid == (lo + hi) \div 2
             left == ScanFences(lines, lo, mid, st)
         IN IF left.code_lines >= 0 THEN ScanFences(lines, mid + 1, hi, left) ELSE st

\* the number of "#" a line starts with
RECURSIVE LeadingHashes(_)
LeadingHashes(line) ==
    IF line # <<>> /\ Head(line) = "#" THEN 1 + LeadingHashes(Tail(line)) ELSE 0

\* re.search(r"(?im)^#{1,6}\s+.*example", text): \s+ may run over line ends
HasExampleHeading(lines) ==
    \E i \in 1..Len(lines) :
        LET h == LeadingHashes(lines[i])
            rest == SubSeq(lines[i], h + 1, Len(lines[i]))
        IN /\ h >= 1 /\ h <= 6
           /\ \/ /\ rest # <<>> /\ Head(rest) \in Space
                 /\ Contains(ToLower(rest), WordExample)
              \/ /\ Strip(rest) = <<>>
                 /\ \E j \in (i + 1)..Len(lines) :
                       /\ \A k \in (i + 1)..(j - 1) : Strip(lines[k]) = <<>>
                       /\ Contains(ToLower(lines[j]), WordExample)

\* references_total_lines is a number, 0 standing for None
ValidateBrainOnlyGuidance(lines, references_total_lines) ==
    LET st0 == [in_code |-> FALSE, code_lines |-> 0, code_blocks |-> 0,
                current_block_lines |-> 0, max_block_lines |-> 0]
        st == ScanFences(lines, 1, Len(lines), st0)
        max_block_lines ==
            IF st.in_code /\ st.current_block_lines > st.max_block_lines
            THEN st.current_block_lines ELSE st.max_block_lines
    IN When(st.in_code, << Warning(MsgUnclosedFence, <<>>) >>)
       \o When(HasExampleHeading(lines), << Warning(MsgExampleSections, <<>>) >>)
       \o When(st.code_blocks > 0, << Warning(MsgFencedCode, <<>>) >>)
       \o When(max_block_lines > MaxBlockLines \/ st.code_lines > MaxCodeLines,
               << Error(MsgLargeCode, <<>>) >>)
       \o When(references_total_lines >= MinReferenceLines
                   /\ Len(lines) * 5 > references_total_lines,
               << Warning(MsgManifestRatio,
                          << ToDec(Len(lines)), ToDec(references_total_lines) >>) >>)

\* the scan of references/ for *.md (lines 618-623): the total, or the exception
RECURSIVE SumLines(_)
SumLines(files) ==
    IF files = {} THEN 0
    ELSE LET f == CHOOSE g \in files : TRUE
         IN (IF f.read = "ok" THEN f.nlines ELSE 0) + SumLines(files \ {f})

ReferencesTotalLines(b) ==
    IF TopKind(b, References) = "none" THEN [total |-> 0, raised |-> "none"]
    ELSE LET md == IF b.refs.kind = "dir"
                   THEN {f \in b.refs.files : EndsWith(Last(f.parts), DotMd)}
                   ELSE {}
         IN IF \E f \in md : f.kind = "dir" \/ f.read = "oserror"
            THEN [total |-> 0, raised |-> "OSError"]
            ELSE [total |-> SumLines(md), raised |-> "none"]

----------------------------------------------------------------------------
(* Grades                                                                  *)

SpecErrorWeight == 25
SpecWarningWeight == 4
StrictErrorWeight == 15
StrictWarningWeight == 3
StrictThreshold == 80

\* _calc_grade without the floor at 0
CalcGradeNoFloor(errors, warnings, error_weight, warning_weight) ==
    LET score == 100 - (errors * error_weight) - (warnings * warning_weight) IN
    IF score > 100 THEN 100 ELSE score

\* _calc_grade
CalcGrade(errors, warnings, error_weight, warning_weight) ==
    LET score == 100 - (errors * error_weight) - (warnings * warning_weight) IN
    IF score < 0 THEN 0
    ELSE IF score > 100 THEN 100
    ELSE score

\* _finalize_grades with the grades as the source computes them
GradedResult(r) ==
    [r EXCEPT
       !.spec_grade =
           CalcGrade(Len(ErrorsOf(r.spec_issues)), Len(WarningsOf(r.spec_issues)),
                     SpecErrorWeight, SpecWarningWeight),
       !.strict_grade =
           CalcGrade(Len(ErrorsOf(r.issues)), Len(WarningsOf(r.issues)),
                     StrictErrorWeight, StrictWarningWeight)]

\* _finalize_grades with strict_passed not gated by spec_passed
FinalizeGradesNoSpecGate(r) ==
    LET g == GradedResult(r) IN
    [g EXCEPT !.spec_passed = Len(ErrorsOf(r.spec_issues)) = 0,
              !.strict_passed = g.strict_grade >= r.strict_threshold]

\* _finalize_grades with spec_passed requiring an empty spec finding list
FinalizeGradesWarningsBlock(r) ==
    LET g == GradedResult(r) IN
    [g EXCEPT !.spec_passed = Len(r.spec_issues) = 0,
              !.strict_passed = Len(r.spec_issues) = 0
                                /\ g.strict_grade >= r.strict_threshold]

\* _finalize_grades comparing the strict grade with 85 instead of the threshold
FinalizeGradesHighBar(r) ==
    LET g == GradedResult(r) IN
    [g EXCEPT !.spec_passed = Len(ErrorsOf(r.spec_issues)) = 0,
              !.strict_passed = Len(ErrorsOf(r.spec_issues)) = 0 /\ g.strict_grade >= 85]

\* _finalize_grades grading the strict list with the weights of the spec list
FinalizeGradesSpecWeights(r) ==
    LET spec_passed == Len(ErrorsOf(r.spec_issues)) = 0
        strict_grade ==
            CalcGrade(Len(ErrorsOf(r.issues)), Len(WarningsOf(r.issues)),
                      SpecErrorWeight, SpecWarningWeight)
    IN [r EXCEPT
          !.spec_grade =
              CalcGrade(Len(ErrorsOf(r.spec_issues)), Len(WarningsOf(r.spec_issues)),
                        SpecErrorWeight, SpecWarningWeight),
          !.strict_grade = strict_grade,
          !.spec_passed = spec_passed,
          !.strict_passed = spec_passed /\ strict_grade >= r.strict_threshold]

\* _finalize_grades, on the result record r
FinalizeGrades(r) ==
    LET spec_passed == Len(ErrorsOf(r.spec_issues)) = 0
        strict_grade ==
            CalcGrade(Len(ErrorsOf(r.issues)), Len(WarningsOf(r.issues)),
                      StrictErrorWeight, StrictWarningWeight)
    IN [r EXCEPT
          !.spec_grade =
              CalcGrade(Len(ErrorsOf(r.spec_issues)), Len(WarningsOf(r.spec_issues)),
                        SpecErrorWeight, SpecWarningWeight),
          !.strict_grade = strict_grade,
          !.spec_passed = spec_passed,
          !.strict_passed = spec_passed /\ strict_grade >= r.strict_threshold]

\* _run_spec_validation; body is None or [t |-> "text", v |-> lines]
RunSpecValidation(parsed, dirname, body) ==
    ValidateNameSpec(Get(parsed, "name"), dirname)
    \o ValidateDescriptionSpec(Get(parsed, "description"))
    \o ValidateOptionalStringFieldSpec(KeyLicense, Get(parsed, "license"), None)
    \o ValidateOptionalStringFieldSpec(KeyCompatibility, Get(parsed, "compatibility"),
                                       PyInt(MaxCompatibilityLen))
    \o ValidateMetadataSpec(Get(parsed, "metadata"))
    \o ValidateAllowedToolsSpec(Get(parsed, "allowed-tools"))
    \o When(body.t = "none" \/ ~JoinedNonBlank(body.v), << Warning(MsgNoBody, <<>>) >>)

\* the strict field rules without the metadata rule
StrictFieldRulesNoMetadata(parsed, dirname) ==
    ValidateName(Get(parsed, "name"), dirname)
    \o ValidateDescription(Get(parsed, "description"))
    \o ValidateOptionalStringField(KeyLicense, Get(parsed, "license"), None)
    \o ValidateOptionalStringField(KeyCompatibility, Get(parsed, "compatibility"),
                                   PyInt(MaxCompatibilityLen))
    \o ValidateAllowedTools(Get(parsed, "allowed-tools"))

\* the strict field rules of verify_skill_directory (lines 598-605)
StrictFieldRules(parsed, dirname) ==
    ValidateName(Get(parsed, "name"), dirname)
    \o ValidateDescription(Get(parsed, "description"))
    \o ValidateOptionalStringField(KeyLicense, Get(parsed, "license"), None)
    \o ValidateOptionalStringField(KeyCompatibility, Get(parsed, "compatibility"),
                                   PyInt(MaxCompatibilityLen))
    \o ValidateMetadata(Get(parsed, "metadata"))
    \o ValidateAllowedTools(Get(parsed, "allowed-tools"))

----------------------------------------------------------------------------
(* The bundles verified.  Two base bundles, and every bundle that differs  *)
(* from a base bundle by at most MaxDeviations changes of one field, each   *)
(* to one of the values listed for the field in Alternatives.              *)

MaxDeviations == 2
ManyStructured == 25

\* lines of SKILL.md
LineKey == <<"k",":"," ","v">>
LineTitle == <<"#"," ","T","i","t","l","e">>
LineText == <<"t","e","x","t">>
LineAtItem == <<" "," ","-"," ","@","p","k","g","/","n","a","m","e">>
LineExamples == <<"#","#"," ","E","x","a","m","p","l","e","s">>
BodyLines == << LineTitle, LineText >>

Text(frontmatter_lines, body_lines) ==
    << Delimiter >> \o frontmatter_lines \o << Delimiter >> \o body_lines

\* a fenced code block with n lines of code
CodeBlock(n) == << Fence \o <<"p","y">> >> \o [i \in 1..n |-> <<"x"," ","="," ","1">>] \o << Fence >>

ManifestFile(lines) == [kind |-> "file", read |-> "ok", lines |-> lines]

RefFile(path, read, nlines) ==
    [parts |-> PathParts(path), kind |-> "file", read |-> read, nlines |-> nlines]
RefDir(path) == [parts |-> PathParts(path), kind |-> "dir", read |-> "ok", nlines |-> 0]
RefsDir(files) == [kind |-> "dir", files |-> files]

KV(key, value) == [k |-> PyStr(key), v |-> value]

GoodActivation ==
    PyDict(<< KV(KeyMode, PyStr(ModeFuzzy)),
              KV(KeyTriggers, PyList(<< PyStr(<<"x">>) >>)),
              KV(KeyPriority, PyStr(PriorityNormal)) >>)

\* a bundle that passes both profiles with no finding
ValidBundle ==
    [root |-> "dir",
     dirname |-> <<"s","k","-","1">>,
     manifest |-> ManifestFile(Text(<< LineKey >>, BodyLines)),
     refs |-> RefsDir({ RefFile(<<"r","e","f","e","r","e","n","c","e","s","/","a","p","i","/","a",".","m","d">>, "ok", 120) }),
     others |-> <<>>,
     outside |-> {},
     yaml |-> "mapping",
     name |-> PyStr(<<"s","k","-","1">>),
     description |-> PyStr(<<"C","h","e","c","k","s"," ","a"," ","b","u","n","d","l","e"," ","w","h","e","n"," ","a","s","k","e","d",".">>),
     license |-> Absent,
     compatibility |-> PyStr(<<"m","a","c","O","S"," ","1","4","+">>),
     metadata |-> PyDict(<< KV(<<"s","k","i","l","l","_","v","e","r","s","i","o","n">>, PyStr(<<"1",".","0",".","0">>)) >>),
     allowed_tools |-> Absent,
     triggers |-> PyList(<< PyStr(<<"x">>) >>),
     references |-> PyList(<< PyStr(<<"r","e","f","e","r","e","n","c","e","s","/","a","p","i","/","a",".","m","d">>) >>),
     activation |-> GoodActivation]

\* a bundle with nothing but a manifest whose frontmatter has no known key
BareBundle ==
    [root |-> "dir",
     dirname |-> <<"s","k","-","1">>,
     manifest |-> ManifestFile(Text(<< LineKey >>, <<>>)),
     refs |-> [kind |-> "absent", files |-> {}],
     others |-> <<>>,
     outside |-> {},
     yaml |-> "mapping",
     name |-> Absent,
     description |-> Absent,
     license |-> Absent,
     compatibility |-> Absent,
     metadata |-> Absent,
     allowed_tools |-> Absent,
     triggers |-> Absent,
     references |-> Absent,
     activation |-> Absent]

BaseBundles == { ValidBundle, BareBundle }

\* n metadata entries with structured (non-string) values
StructuredEntries(n) == [i \in 1..n |-> KV(Rep("k", i), PyList(<<>>))]

Alternatives ==
    [root |-> << "file", "missing" >>,
     manifest |->
        << [kind |-> "absent", read |-> "ok", lines |-> <<>>],
          [kind |-> "dir", read |-> "oserror", lines |-> <<>>],
          [kind |-> "file", read |-> "undecodable", lines |-> <<>>],
          ManifestFile(<<>>),
          ManifestFile(BodyLines),
          ManifestFile(<< Delimiter, LineKey >> \o BodyLines),
          ManifestFile(<< <<" ","-","-","-"," ">> >> \o << <<" ">> >> \o << <<"-","-","-"," "," ">> >> \o BodyLines),
          ManifestFile(Text(<< LineKey, LineAtItem >>, << <<" ">> >>)),
          ManifestFile(Text(<< LineKey >>,
                            << LineExamples >> \o CodeBlock(MaxBlockLines + 1))),
          ManifestFile(Text(<< LineKey >>, [i \in 1..MaxManifestLines |-> LineText])) >>,
     refs |->
        << [kind |-> "absent", files |-> {}],
          [kind |-> "file", files |-> {}],
          RefsDir({ RefFile(<<"r","e","f","e","r","e","n","c","e","s","/","a","p","i","/","a",".","m","d">>, "ok", 120) }),
          RefsDir({ RefFile(<<"r","e","f","e","r","e","n","c","e","s","/","o","v","e","r","v","i","e","w",".","m","d">>, "ok", 120),
                    RefFile(<<"r","e","f","e","r","e","n","c","e","s","/","z","z","z","/","a",".","m","d">>, "ok", MaxReferenceLines + 1) }),
          RefsDir({ RefFile(<<"r","e","f","e","r","e","n","c","e","s","/","a","p","i","/","a",".","m","d">>, "undecodable", 0) }),
          RefsDir({ RefFile(<<"r","e","f","e","r","e","n","c","e","s","/","a","p","i","/","a",".","m","d">>, "oserror", 0) }),
          RefsDir({ RefFile(<<"r","e","f","e","r","e","n","c","e","s","/","a","p","i","/","a",".","m","d">>, "ok", 120),
                    RefDir(<<"r","e","f","e","r","e","n","c","e","s","/","a","p","i","/","d",".","m","d">>) }),
          RefsDir({ RefFile(<<"r","e","f","e","r","e","n","c","e","s","/","a","p","i","/","a",".","m","d">>, "ok", 10),
                    RefFile(<<"r","e","f","e","r","e","n","c","e","s","/","a","p","i","/","b",".","m","d">>, "ok", 10),
                    RefFile(<<"r","e","f","e","r","e","n","c","e","s","/","m","i","s","c","/","c",".","M","D">>, "ok", 10),
                    RefFile(<<"r","e","f","e","r","e","n","c","e","s","/","m","i","s","c","/","d",".","m","d">>, "ok", 150),
                    RefFile(<<"r","e","f","e","r","e","n","c","e","s","/","m","i","s","c","/","e",".","m","d">>, "ok", 150),
                    RefFile(<<"r","e","f","e","r","e","n","c","e","s","/","m","i","s","c","/","n",".","t","x","t">>, "ok", 5) }),
          RefsDir({ RefFile(<<"r","e","f","e","r","e","n","c","e","s","/","o","v","e","r","v","i","e","w",".","m","d">>, "ok", 120),
                    RefFile(<<"r","e","f","e","r","e","n","c","e","s","/","m","i","s","c","/","o","v","e","r","v","i","e","w",".","m","d">>, "ok", 120),
                    RefFile(<<"r","e","f","e","r","e","n","c","e","s","/","A","P","I","/","a",".","m","d">>, "ok", MaxReferenceLines),
                    RefFile(<<"r","e","f","e","r","e","n","c","e","s","/","a","p","i","/","s","u","b","/","d","e","e","p",".","m","d">>, "ok", MaxReferenceLines + 1),
                    RefFile(<<"r","e","f","e","r","e","n","c","e","s","/","b","i","g",".","m","d">>, "ok", MaxReferenceLines + 1) }) >>,
     others |->
        << << [name |-> Scripts, kind |-> "file"] >>,
          << [name |-> <<"n","o","t","e","s",".","t","x","t">>, kind |-> "file"] >>,
          << [name |-> DsStore, kind |-> "file"], [name |-> <<"t","m","p">>, kind |-> "dir"],
             [name |-> Assets, kind |-> "file"], [name |-> Agents, kind |-> "dir"] >> >>,
     outside |-> << { PathParts(<<"/","x",".","m","d">>) } >>,
     yaml |-> << "error", "list", "none" >>,
     name |-> << Absent, PyStr(<<"s","k","-","1">>), PyStr(<<"M","y","_","S","k","i","l","l">>), PyStr(<<"-","-","A">>),
               PyInt(1), PyStr(Rep("a", MaxNameLen + 1)), PyStr(Rep("a", MaxNameLen)), PyStr(<<>>),
               PyStr(<<"s","k","-","1","-">>), PyStr(<<"a","-","-","b">>), PyStr(<<"S","k","-","1">>), PyStr(<<"s","k","-","1"," ">>), PyStr(<<"m","y","-","s","k","i","l","l">>) >>,
     dirname |-> << <<"m","y","-","s","k","i","l","l">>, <<"M","y","_","S","k","i","l","l">>, Rep("a", MaxNameLen) >>,
     description |->
        << Absent, PyStr(<<" "," ">>), PyStr(<<" ","s","h","o","r","t"," ">>), PyStr(<<"C","h","e","c","k","s"," ","a"," ","b","u","n","d","l","e"," ","w","h","e","n"," ","a","s","k","e","d",".">>),
          PyStr(Rep("d", MaxDescriptionLen + 1)) >>,
     license |-> << PyInt(1) >>,
     compatibility |-> << Absent, PyStr(<<" ">>), PyStr(<<"a","n","y">>), PyStr(<<"m","a","c","O","S"," ","1","4","+">>),
                        PyStr(Rep("c", MaxCompatibilityLen + 1)), PyInt(14) >>,
     metadata |->
        << Absent, PyStr(<<"x">>),
          PyDict(<< KV(<<"o","w","n","e","r">>, PyStr(<<"a","l","i","c","e">>)) >>),
          PyDict(<< KV(<<"V","e","r","s","i","o","n">>, PyStr(<<"o","n","e">>)), KV(KeyCompatibility, PyStr(<<"a","n","y">>)) >>),
          PyDict(<< [k |-> PyInt(1), v |-> PyInt(2)], KV(<<"a","p","i","-","v","e","r","s","i","o","n">>, PyInt(2)) >>),
          PyDict(StructuredEntries(ManyStructured)),
          PyDict(<< KV(KeyCompatibility, PyStr(<<" ">>)), KV(KeyVersion, PyStr(<<" ">>)) >>),
          PyDict(<< KV(KeyCompatibility, PyDict(<< KV(<<"o","s">>, PyStr(<<"a","n","y">>)) >>)) >>) >>,
     allowed_tools |-> << PyStr(<<" ">>), PyInt(1) >>,
     triggers |-> << Absent, PyList(<< PyStr(<<"x">>), PyStr(<<" ">>) >>), PyList(<< PyStr(<<"x">>) >>) >>,
     references |->
        << Absent, None, PyStr(<<"r","e","f","e","r","e","n","c","e","s","/","a","p","i","/","a",".","m","d">>),
          PyList(<< PyStr(<<"r","e","f","e","r","e","n","c","e","s","/","a","p","i","/","a",".","m","d">>) >>),
          PyList(<< PyStr(<<"r","e","f","e","r","e","n","c","e","s","/","a","p","i","/","m","i","s","s","i","n","g",".","m","d">>) >>),
          PyList(<< PyStr(<<"/","x",".","m","d">>), PyStr(<<".",".","/","x",".","m","d">>), PyStr(<<"r","e","f","e","r","e","n","c","e","s","/",".",".","/","S","K","I","L","L",".","m","d">>) >>),
          PyList(<<>>),
          PyList(<< PyStr(<<"r","e","f","e","r","e","n","c","e","s","/","a","p","i","/","a",".","m","d">>), PyInt(1) >>),
          PyList(<< PyStr(<<"r","e","f","e","r","e","n","c","e","s","/","a","p","i","/","a",".","m","d">>), PyStr(<<" ">>) >>),
          PyList(<< PyStr(<<"S","K","I","L","L",".","m","d">>), PyStr(<<"r","e","f","e","r","e","n","c","e","s","/","z","z","z","/","a",".","m","d">>) >>) >>,
     activation |->
        << Absent, PyStr(<<"f","u","z","z","y">>), GoodActivation,
          PyDict(<< KV(KeyMode, PyStr(<<"l","o","o","s","e">>)),
                    KV(KeyTriggers, PyList(<<>>)),
                    KV(KeyPriority, PyInt(1)) >>),
          PyDict(<< KV(KeyMode, PyList(<< PyStr(ModeFuzzy) >>)),
                    KV(KeyTriggers, PyList(<< PyStr(<<"x">>) >>)),
                    KV(KeyPriority, PyStr(PriorityNormal)) >>) >>]

BundleFields == DOMAIN Alternatives

\* a path that is not a directory holds no entry
Normalize(b) ==
    IF b.root = "dir" THEN b
    ELSE [b EXCEPT !.manifest = [kind |-> "absent", read |-> "ok", lines |-> <<>>],
                   !.refs = [kind |-> "absent", files |-> {}],
                   !.others = <<>>]

\* one changed field, or no change
NoEdit == [f |-> "", i |-> 0]
Edits ==
    { NoEdit }
    \cup UNION { { [f |-> f, i |-> i] : i \in 1..Len(Alternatives[f]) } : f \in BundleFields }

RECURSIVE ApplyEdits(_, _)
ApplyEdits(b, es) ==
    IF es = <<>> THEN b
    ELSE ApplyEdits(IF Head(es).f = "" THEN b ELSE [b EXCEPT ![Head(es).f] = Alternatives[Head(es).f][Head(es).i]],
                    Tail(es))

----------------------------------------------------------------------------
(* verify_skill_directory as a state machine: one action per stage.        *)

VARIABLES
    bundle,     \* the directory being verified (never written)
    pc,         \* the stage verify_skill_directory is at
    result,     \* the VerificationResult under construction
    exc,        \* the exception that left verify_skill_directory, or "none"
    earlier,    \* the results the earlier calls on this bundle returned
    added,      \* how many top-level entries were added since the first call
    cli         \* the command of cli.py that runs, its options, counters and the registry

vars == << bundle, pc, result, exc, earlier, added, cli >>

\* no command of cli.py runs: verify_skill_directory is called on its own
NoCli ==
    [command |-> "none", phase |-> "exited", gate |-> <<>>, name |-> None,
     install |-> FALSE, force |-> FALSE, raw |-> <<>>, resolved |-> <<>>,
     batch |-> FALSE, next |-> 0, success_count |-> 0, fail_count |-> 0,
     registry |-> {}, installed |-> {}, exit |-> "running"]

\* VerificationResult(skill_dir=..., skill_md_path=...): the dataclass defaults
NewResult ==
    [issues |-> <<>>, spec_issues |-> <<>>, frontmatter |-> None, body |-> None,
     spec_grade |-> 0, strict_grade |-> 0, spec_passed |-> FALSE,
     strict_passed |-> FALSE, strict_threshold |-> StrictThreshold]

MsgNotDirectory == "Skill path is not a directory: {}"
MsgMissingFile == "Missing required file: {}"
MsgNotUtf8 == "SKILL.md must be UTF-8 decodable text."
MsgUnableToRead == "Unable to read SKILL.md: {}"
MsgNoFrontmatter == "SKILL.md must start with YAML frontmatter delimited by '---'."
MsgInvalidYaml == "Invalid YAML frontmatter in SKILL.md: {}"
MsgNotMapping == "SKILL.md frontmatter must be a YAML mapping/object."

\* a fatal return that forgets result.add_spec_error(m)
FatalReturnNoSpecError(msg, args) ==
    /\ result' = FinalizeGrades([result EXCEPT !.issues = Append(@, Error(msg, args))])
    /\ pc' = "done"
    /\ UNCHANGED << bundle, exc, earlier, added, cli >>

\* result.add_error(m); result.add_spec_error(m); _finalize_grades(result); return result
FatalReturn(msg, args) ==
    /\ result' = FinalizeGrades(
           [result EXCEPT !.issues = Append(@, Error(msg, args)),
                          !.spec_issues = Append(@, Error(msg, args))])
    /\ pc' = "done"
    /\ UNCHANGED << bundle, exc, earlier, added, cli >>

\* an exception leaves verify_skill_directory: no result is returned
Propagate(findings, exception) ==
    /\ result' = [result EXCEPT !.issues = @ \o findings]
    /\ pc' = "raised"
    /\ exc' = exception
    /\ UNCHANGED << bundle, earlier, added, cli >>

\* a stage that also deletes the .DS_Store entry it skips
ContinueCleaning(findings, next) ==
    /\ result' = [result EXCEPT !.issues = @ \o findings]
    /\ pc' = next
    /\ bundle' = [bundle EXCEPT !.others = SelectSeq(@, LAMBDA e : e.name # DsStore)]
    /\ UNCHANGED << exc, earlier, added, cli >>

\* a stage appends its strict findings and control goes on
Continue(findings, next) ==
    /\ result' = [result EXCEPT !.issues = @ \o findings]
    /\ pc' = next
    /\ UNCHANGED << bundle, exc, earlier, added, cli >>

\* lines 542-546
CheckDirectory ==
    /\ pc = "start"
    /\ IF bundle.root # "dir"
       THEN FatalReturn(MsgNotDirectory, << bundle.dirname >>)
       ELSE Continue(<<>>, "manifest")

\* lines 548-556
CheckManifest ==
    /\ pc = "manifest"
    /\ IF bundle.manifest.kind = "absent"
       THEN FatalReturn(MsgMissingFile, << SkillMd >>)
       ELSE Continue(ValidateOptionalDirs(bundle) \o ValidateTopLevelLayout(bundle), "read")

\* lines 558-569: read_text of a directory is an OSError
ReadManifest ==
    /\ pc = "read"
    /\ IF bundle.manifest.kind = "dir" \/ bundle.manifest.read = "oserror"
       THEN FatalReturn(MsgUnableToRead, <<>>)
       ELSE IF bundle.manifest.read = "undecodable"
       THEN FatalReturn(MsgNotUtf8, <<>>)
       ELSE Continue(<<>>, "split")

\* lines 571-580
SplitManifest ==
    /\ pc = "split"
    /\ LET split == SplitFrontmatter(bundle.manifest.lines) IN
       IF ~split.ok
       THEN FatalReturn(MsgNoFrontmatter, <<>>)
       ELSE /\ result' = [result EXCEPT
                  !.body = [t |-> "text", v |-> split.body],
                  !.issues = @ \o ValidateYamlFrontmatterSafety(split.fm)]
            /\ pc' = "parse"
            /\ UNCHANGED << bundle, exc, earlier, added, cli >>

\* yaml.safe_load(frontmatter_text) if frontmatter_text.strip() else None
SafeLoad(b, frontmatter_lines) ==
    IF JoinedNonBlank(frontmatter_lines) THEN b.yaml ELSE "none"

\* lines 582-596
ParseFrontmatter ==
    /\ pc = "parse"
    /\ LET parsed == SafeLoad(bundle, SplitFrontmatter(bundle.manifest.lines).fm) IN
       IF parsed = "error" THEN FatalReturn(MsgInvalidYaml, <<>>)
       ELSE IF parsed # "mapping" THEN FatalReturn(MsgNotMapping, <<>>)
       ELSE /\ result' = [result EXCEPT
                  !.frontmatter = [t |-> "frontmatter", v |-> ParsedMapping(bundle)]]
            /\ pc' = "fields"
            /\ UNCHANGED << bundle, exc, earlier, added, cli >>

\* lines 598-605
FieldRules ==
    /\ pc = "fields"
    /\ Continue(StrictFieldRules(result.frontmatter.v, bundle.dirname), "conventions")

Step(r, next) ==
    IF r.raised # "none" THEN Propagate(r.findings, r.raised)
    ELSE Continue(r.findings, next)

\* line 606
CustomConventions ==
    /\ pc = "conventions"
    /\ Step(ValidateCustomFrontmatterConventions(result.frontmatter.v, bundle,
                                                 bundle.dirname), "taxonomy")

\* line 607
ReferencesTaxonomy ==
    /\ pc = "taxonomy"
    /\ Step(ValidateReferencesTaxonomyAndSizes(bundle, bundle.dirname,
                                               result.frontmatter.v), "spec")

\* line 608
SpecValidation ==
    /\ pc = "spec"
    /\ result' = [result EXCEPT
           !.spec_issues = @ \o RunSpecValidation(result.frontmatter.v, bundle.dirname,
                                                  result.body)]
    /\ pc' = "body"
    /\ UNCHANGED << bundle, exc, earlier, added, cli >>

\* lines 610-617
BodyAndLength ==
    /\ pc = "body"
    /\ Continue(
           When(result.body.t = "none" \/ ~JoinedNonBlank(result.body.v),
                << Warning(MsgNoBody, <<>>) >>)
           \o When(Len(bundle.manifest.lines) > MaxManifestLines,
                   << Warning(MsgManifestLong, << ToDec(Len(bundle.manifest.lines)) >>) >>),
           "guidance")

\* lines 618-624
BrainOnlyGuidance ==
    /\ pc = "guidance"
    /\ LET scan == ReferencesTotalLines(bundle) IN
       IF scan.raised # "none" THEN Propagate(<<>>, scan.raised)
       ELSE Continue(ValidateBrainOnlyGuidance(bundle.manifest.lines, scan.total),
                     "finalize")

\* lines 625-627
Finalize ==
    /\ pc = "finalize"
    /\ result' = FinalizeGrades(result)
    /\ pc' = "done"
    /\ UNCHANGED << bundle, exc, earlier, added, cli >>

Next ==
    \/ CheckDirectory
    \/ CheckManifest
    \/ ReadManifest
    \/ SplitManifest
    \/ ParseFrontmatter
    \/ FieldRules
    \/ CustomConventions
    \/ ReferencesTaxonomy
    \/ SpecValidation
    \/ BodyAndLength
    \/ BrainOnlyGuidance
    \/ Finalize

Init ==
    /\ \E base \in BaseBundles, es \in [1..MaxDeviations -> Edits] :
           bundle = Normalize(ApplyEdits(base, es))
    /\ pc = "start"
    /\ result = NewResult
    /\ exc = "none"
    /\ earlier = <<>>
    /\ added = 0
    /\ cli = NoCli

Spec == Init /\ [][Next]_vars

----------------------------------------------------------------------------
(* A second call on the bundle the first call has left, as it is or with   *)
(* top-level entries added to it in between.                               *)

MaxRepeatDeviations == 1
MaxAdded == 7

\* a further call whose result starts with the finding list of the call before
CallAgainSharedList ==
    /\ pc = "done"
    /\ earlier = <<>>
    /\ earlier' = << result >>
    /\ result' = [NewResult EXCEPT !.issues = result.issues]
    /\ pc' = "start"
    /\ UNCHANGED << bundle, exc, added, cli >>

\* the caller calls verify_skill_directory again: a fresh VerificationResult
CallAgain ==
    /\ pc = "done"
    /\ earlier = <<>>
    /\ earlier' = << result >>
    /\ result' = NewResult
    /\ pc' = "start"
    /\ UNCHANGED << bundle, exc, added, cli >>

\* n entries with names the layout rule does not recognise, files and directories
NewEntries(n) ==
    [i \in 1..n |-> [name |-> Rep("x", i), kind |-> IF i % 2 = 1 THEN "file" ELSE "dir"]]

\* n unrecognised top-level entries are added to the directory, which is then
\* verified again
AddUnrecognised ==
    /\ pc = "done"
    /\ earlier = <<>>
    /\ bundle.root = "dir"
    /\ \E n \in 1..MaxAdded :
           /\ bundle' = [bundle EXCEPT !.others = @ \o NewEntries(n)]
           /\ added' = n
    /\ earlier' = << result >>
    /\ result' = NewResult
    /\ pc' = "start"
    /\ UNCHANGED << exc, cli >>

NextRepeat ==
    \/ Next
    \/ CallAgain
    \/ AddUnrecognised

InitRepeat ==
    /\ \E base \in BaseBundles, es \in [1..MaxRepeatDeviations -> Edits] :
           bundle = Normalize(ApplyEdits(base, es))
    /\ pc = "start"
    /\ result = NewResult
    /\ exc = "none"
    /\ earlier = <<>>
    /\ added = 0
    /\ cli = NoCli

SpecRepeat == InitRepeat /\ [][NextRepeat]_vars

-----------------------------------------------------------------------------
(* One call on a valid bundle in which a single measure is swept through   *)
(* its range: the reference files and how many of them are short.          *)

MaxFiles == 9

\* n Markdown files under references/api, the last m of them one line short
\* of the micro-file limit and the others exactly at it
FragmentFiles(n, m) ==
    { RefFile(IF i = 1 THEN <<"r","e","f","e","r","e","n","c","e","s","/","a","p","i","/","a",".","m","d">>
              ELSE <<"r","e","f","e","r","e","n","c","e","s","/","a","p","i","/">> \o Rep("f", i) \o DotMd,
              "ok",
              IF i > n - m THEN MicroFileLines - 1 ELSE MicroFileLines) : i \in 1..n }

FragmentBundles ==
    UNION { { [ValidBundle EXCEPT !.refs = RefsDir(FragmentFiles(n, m))] : m \in 0..n } :
                n \in 1..MaxFiles }

MaxBlocks == 3

\* a manifest whose body holds k fenced blocks of len code lines each, the last
\* one left without its closing fence when closed is FALSE
CodeManifest(k, len, closed) ==
    LET blocks == Flatten([i \in 1..k |-> << LineText >> \o CodeBlock(len)])
    IN ManifestFile(Text(<< LineKey >>,
           BodyLines \o (IF closed \/ k = 0 THEN blocks ELSE Front(blocks))))

CodeBundles ==
    { [ValidBundle EXCEPT !.manifest = CodeManifest(k, len, closed)] :
          k \in 0..MaxBlocks, len \in {0, 1, 20, 21, 25, 26}, closed \in BOOLEAN }

\* frontmatter lines that YAML reads as a comment and as a block scalar
LineComment == <<"#"," ","s","e","e"," ","t","h","e"," ","e","x","a","m","p","l","e","s"," ","f","o","l","d","e","r">>
LineNotes == <<"n","o","t","e","s",":"," ","|">>
Indented(lines) == [i \in 1..Len(lines) |-> <<" ", " ">> \o lines[i]]

\* manifests that differ in the frontmatter text and in the body
FrontmatterBundles ==
    { [ValidBundle EXCEPT !.manifest = ManifestFile(Text(fm, body))] :
          fm \in { << LineKey >>,
                   << LineKey, LineComment >>,
                   << LineKey, LineNotes >> \o Indented(CodeBlock(1)),
                   << LineKey, LineNotes >> \o Indented(CodeBlock(MaxBlockLines + 1)) },
          body \in { BodyLines,
                     BodyLines \o << LineExamples, LineText >>,
                     BodyLines \o CodeBlock(1) } }

\* descriptions of every length around the limits, bare and padded with blanks,
\* and values that are no string
DescriptionBundles ==
    { [ValidBundle EXCEPT !.description = PyStr(pad \o Rep("d", n) \o pad)] :
          n \in { 0, 1, ShortDescriptionLen - 1, ShortDescriptionLen,
                  MaxDescriptionLen, MaxDescriptionLen + 1 },
          pad \in { <<>>, <<" ">>, <<"\t", " ">> } }
    \cup { [ValidBundle EXCEPT !.description = v] :
               v \in { Absent, None, PyInt(7), PyList(<< PyStr(<<"d">>) >>) } }

SweepBundles ==
    FragmentBundles \cup CodeBundles \cup FrontmatterBundles \cup DescriptionBundles

InitSweep ==
    /\ bundle \in SweepBundles
    /\ pc = "start"
    /\ result = NewResult
    /\ exc = "none"
    /\ earlier = <<>>
    /\ added = 0
    /\ cli = NoCli

SpecSweep == InitSweep /\ [][Next]_vars

-----------------------------------------------------------------------------
(* cli.py: the commands `register`, `create` and `verify`, which call       *)
(* verify_skill_directory, and the registry ~/skills/skills they write.     *)

\* str.replace(old, new) for one character
ReplaceChar(s, old, new) == [i \in 1..Len(s) |-> IF s[i] = old THEN new ELSE s[i]]

\* the characters of s at the positions in keep, in order
Keep(s, keep) ==
    [k \in 1..Cardinality(keep) |->
        s[CHOOSE i \in keep : Cardinality({j \in keep : j <= i}) = k]]

\* "-".join(s.split()): the words of s, each run of blanks between two words
\* turned into one hyphen
JoinWords(s) ==
    LET inked == {i \in 1..Len(s) : s[i] \notin Space}
        first == {i \in 1..Len(s) :
                     /\ s[i] \in Space
                     /\ i > 1 /\ s[i - 1] \notin Space
                     /\ \E j \in inked : j > i}
        t == [i \in 1..Len(s) |-> IF s[i] \in Space THEN "-" ELSE s[i]]
    IN Keep(t, inked \cup first)

\* while "--" in s: s = s.replace("--", "-"): every run of hyphens ends as one
CollapseHyphens(s) ==
    Keep(s, {i \in 1..Len(s) : ~(s[i] = "-" /\ i > 1 /\ s[i - 1] = "-")})

\* str.strip("-")
StripHyphens(s) ==
    LET inner == {i \in 1..Len(s) : s[i] # "-"} IN
    Keep(s, {i \in 1..Len(s) : \E a, b \in inner : a <= i /\ i <= b})

\* normalize_skill_name
NormalizeSkillName(name) ==
    StripHyphens(CollapseHyphens(JoinWords(ReplaceChar(ToLower(Strip(name)), "_", "-"))))

SKILL_MD_NAMES == { <<"S","K","I","L","L",".","m","d">>, <<"S","K","I","L","L","S",".","m","d">>, <<"s","k","i","l","l","s",".","m","d">> }

\* has_skill_file, for a path that is a directory
HasSkillFile(b) ==
    \E i \in 1..Len(TopEntries(b)) : TopEntries(b)[i].name \in SKILL_MD_NAMES

\* sorted(...) of directories, which compares their paths: here their names
RECURSIVE SortByDirname(_)
SortByDirname(bs) ==
    IF bs = <<>> THEN <<>>
    ELSE LET m == CHOOSE i \in 1..Len(bs) :
                      \A j \in 1..Len(bs) : ~StrLess(bs[j].dirname, bs[i].dirname)
         IN << bs[m] >>
            \o SortByDirname(SubSeq(bs, 1, m - 1) \o SubSeq(bs, m + 1, Len(bs)))

\* A source path of `register` is [kind |-> "path", bundles |-> << b >>] for a path
\* holding the bundle b (or nothing, or a file), and [kind |-> "parent", bundles |->
\* children] for a directory with no skill file whose child directories are bundles.
\* find_skill_folders_in_dir: the child directories that hold a skill file
FindSkillFoldersInDir(source) ==
    IF source.kind = "parent"
    THEN SortByDirname(SelectSeq(source.bundles,
                                 LAMBDA b : b.root = "dir" /\ HasSkillFile(b)))
    ELSE <<>>

\* the loop of register that expands the sources (lines 576-590)
ResolveSources(sources) ==
    Flatten([i \in 1..Len(sources) |->
        LET source == sources[i] IN
        IF source.kind = "parent"
               \/ (source.bundles[1].root = "dir" /\ ~HasSkillFile(source.bundles[1]))
        THEN FindSkillFoldersInDir(source)
        ELSE source.bundles])

\* bool(value) for an option that is None or a str
Truthy(option) == option.t = "str" /\ option.v # <<>>

GateSpec == <<"s","p","e","c">>
GateStrict == <<"s","t","r","i","c","t">>

\* _gate_passed: raises BadParameter for an unknown gate
GatePassed(verification, gate) ==
    LET g == Strip(ToLower(gate)) IN
    IF g \notin { GateSpec, GateStrict } THEN [raised |-> TRUE, passed |-> FALSE]
    ELSE [raised |-> FALSE,
          passed |-> IF g = GateSpec THEN verification.spec_passed
                     ELSE verification.strict_passed]

\* VerificationResult.get_frontmatter_name
GetFrontmatterName(verification) ==
    IF verification.frontmatter.t # "frontmatter" THEN None
    ELSE LET value == Get(verification.frontmatter.v, "name")
         IN IF IsStr(value) THEN value ELSE None

\* copy_dir(src, dest) with dest = REGISTRY_SKILLS_DIR / name: what was at dest is
\* removed and the tree of the source is copied there
CopyDir(registry, name, src, b) ==
    { e \in registry : e.name # name } \cup { [name |-> name, src |-> src, bundle |-> b] }

\* the command ends: typer.Exit(code=1) is "exit1", typer.BadParameter is "usage"
ExitCommand(c, code) ==
    /\ cli' = [c EXCEPT !.phase = "exited", !.exit = code]
    /\ pc' = "idle"
    /\ UNCHANGED << bundle, result, exc, added >>

\* register, up to the loop over the resolved sources (lines 569-599)
RegisterResolve ==
    /\ cli.command = "register"
    /\ cli.phase = "args"
    /\ IF Truthy(cli.name) /\ Len(cli.raw) > 1
       THEN ExitCommand(cli, "usage") /\ UNCHANGED earlier
       ELSE LET resolved == ResolveSources(cli.raw) IN
            IF resolved = <<>>
            THEN ExitCommand(cli, "usage") /\ UNCHANGED earlier
            ELSE /\ cli' = [cli EXCEPT !.resolved = resolved,
                                       !.batch = Len(resolved) > 1,
                                       !.next = 1,
                                       !.phase = "loop"]
                 /\ bundle' = resolved[1]
                 /\ result' = NewResult
                 /\ pc' = "start"
                 /\ UNCHANGED << exc, earlier, added >>

\* `continue`, or the end of the body of the loop: the next source is verified
NextSource(c) ==
    /\ earlier' = Append(earlier, result)
    /\ IF c.next < Len(c.resolved)
       THEN /\ cli' = [c EXCEPT !.next = @ + 1]
            /\ bundle' = c.resolved[c.next + 1]
            /\ result' = NewResult
            /\ pc' = "start"
       ELSE /\ cli' = [c EXCEPT !.phase = "finish"]
            /\ pc' = "idle"
            /\ UNCHANGED << bundle, result >>
    /\ UNCHANGED << exc, added >>

\* a source is skipped in batch mode, and stops the command otherwise
SkipOrStop(code) ==
    IF cli.batch THEN NextSource([cli EXCEPT !.fail_count = @ + 1])
    ELSE ExitCommand(cli, code) /\ earlier' = Append(earlier, result)

\* the body of the loop of register after verify_skill_directory has returned
\* (lines 606-659), install_skills included (lines 243-266)
RegisterGate ==
    /\ cli.command = "register"
    /\ cli.phase = "loop"
    /\ pc = "done"
    /\ LET gate == GatePassed(result, cli.gate)
           skill_name == Strip(IF Truthy(cli.name) THEN cli.name.v ELSE bundle.dirname)
           frontmatter_name == GetFrontmatterName(result)
           copied == [cli EXCEPT
                         !.registry = CopyDir(@, skill_name, cli.next, bundle),
                         !.success_count = @ + 1]
       IN IF gate.raised THEN ExitCommand(cli, "usage") /\ earlier' = Append(earlier, result)
          ELSE IF ~gate.passed THEN SkipOrStop("exit1")
          ELSE IF skill_name = <<>> THEN SkipOrStop("usage")
          ELSE IF Truthy(frontmatter_name) /\ Truthy(cli.name)
                      /\ skill_name # frontmatter_name.v
          THEN SkipOrStop("usage")
          ELSE IF ~cli.install THEN NextSource(copied)
          ELSE IF bundle.root # "dir" \/ bundle.manifest.kind = "absent"
          THEN ExitCommand(copied, "usage") /\ earlier' = Append(earlier, result)
          ELSE NextSource([copied EXCEPT !.installed = @ \cup { skill_name }])

\* register after the loop (lines 661-664)
RegisterFinish ==
    /\ cli.command = "register"
    /\ cli.phase = "finish"
    /\ ExitCommand(cli, IF cli.batch /\ cli.fail_count > 0 THEN "exit1" ELSE "ok")
    /\ UNCHANGED earlier

\* an exception of verify_skill_directory is caught nowhere in cli.py: the command
\* ends with a traceback
CommandCrash ==
    /\ cli.command # "none"
    /\ cli.phase = "loop"
    /\ pc = "raised"
    /\ cli' = [cli EXCEPT !.phase = "exited", !.exit = "traceback"]
    /\ UNCHANGED << bundle, pc, result, exc, earlier, added >>

\* int(s) for a string of digits
RECURSIVE FromDec(_)
FromDec(s) ==
    IF s = <<>> THEN 0 ELSE 10 * FromDec(Front(s)) + (Ord(Last(s)) - Ord("0"))

\* the value yaml.safe_load gives the plain scalar s (one word without blanks):
\* an integer for decimal digits, a boolean or null for the words YAML reserves,
\* the string otherwise
YamlBooleans == { <<"t","r","u","e">>, <<"f","a","l","s","e">>, <<"y","e","s">>, <<"n","o">>, <<"o","n">>, <<"o","f","f">> }
YamlNulls == { <<"n","u","l","l">>, <<"~">> }
YamlPlain(s) ==
    IF \A i \in 1..Len(s) : s[i] \in Digit
    THEN IF Len(s) > 1 /\ Head(s) = "0" THEN PyStr(s) ELSE PyInt(FromDec(s))
    ELSE IF s \in YamlBooleans THEN [t |-> "bool", v |-> s \in { <<"t","r","u","e">>, <<"y","e","s">>, <<"o","n">> }]
    ELSE IF s \in YamlNulls THEN None
    ELSE PyStr(s)

\* characters that cannot start a plain scalar
YamlIndicators == { "@", BQ }

ScaffoldReference == <<"r","e","f","e","r","e","n","c","e","s","/","m","i","s","c","/","o","v","e","r","v","i","e","w",".","m","d">>

\* the text create writes to SKILL.md (lines 501-528), as lines
ScaffoldManifest(skill_name) ==
    << Delimiter,
       <<"n","a","m","e",":"," ">> \o skill_name,
       <<"d","e","s","c","r","i","p","t","i","o","n",":"," ",">","-">>,
       <<" "," ","D","e","s","c","r","i","b","e"," ","w","h","a","t"," ","t","h","e"," ",BQ>> \o skill_name \o <<BQ," ","s","k","i","l","l"," ","d","o","e","s"," ","a","n","d"," ","w","h","e","n"," ","t","o"," ","u","s","e"," ","i","t",".">>,
       <<"t","r","i","g","g","e","r","s",":">>,
       <<" "," ","-"," ">> \o skill_name,
       <<"r","e","f","e","r","e","n","c","e","s",":">>,
       <<" "," ","-"," ","r","e","f","e","r","e","n","c","e","s","/","m","i","s","c","/","o","v","e","r","v","i","e","w",".","m","d">>,
       <<"c","o","m","p","a","t","i","b","i","l","i","t","y",":"," ","\"","A","d","d"," ","s","u","p","p","o","r","t","e","d"," ","v","e","r","s","i","o","n","s","/","p","l","a","t","f","o","r","m","s"," ","h","e","r","e","\"">>,
       <<"m","e","t","a","d","a","t","a",":">>,
       <<" "," ","s","k","i","l","l","_","v","e","r","s","i","o","n",":"," ","\"","0",".","1",".","0","\"">>,
       <<" "," ","o","w","n","e","r",":"," ","\"","\"">>,
       <<"a","c","t","i","v","a","t","i","o","n",":">>,
       <<" "," ","m","o","d","e",":"," ","f","u","z","z","y">>,
       <<" "," ","t","r","i","g","g","e","r","s",":">>,
       <<" "," "," "," ","-"," ">> \o skill_name,
       <<" "," ","p","r","i","o","r","i","t","y",":"," ","n","o","r","m","a","l">>,
       Delimiter,
       <<>>,
       <<"#"," ","S","k","i","l","l"," ","I","n","s","t","r","u","c","t","i","o","n","s">>,
       <<>>,
       <<"K","e","e","p"," ","t","h","i","s"," ","f","i","l","e"," ","f","o","c","u","s","e","d"," ","o","n"," ","c","r","i","t","i","c","a","l"," ","s","e","t","u","p"," ","r","u","l","e","s"," ","a","n","d"," ","i","n","v","a","r","i","a","n","t","s"," ","o","n","l","y",".">>,
       <<>>,
       <<"#","#"," ","C","r","i","t","i","c","a","l"," ","R","u","l","e","s">>,
       <<>>,
       <<"1","."," ","R","e","p","l","a","c","e"," ","t","h","i","s"," ","s","c","a","f","f","o","l","d"," ","w","i","t","h"," ","t","h","e"," ","a","c","t","u","a","l"," ","s","e","t","u","p"," ","c","o","n","s","t","r","a","i","n","t","s",".">>,
       <<"2","."," ","M","o","v","e"," ","d","e","t","a","i","l","e","d"," ","d","o","c","s","/","e","x","a","m","p","l","e","s"," ","i","n","t","o"," ",BQ,"r","e","f","e","r","e","n","c","e","s","/",BQ," ","f","i","l","e","s",".">> >>

\* the directory create leaves at REGISTRY_SKILLS_DIR / skill_name (lines 500-535),
\* with the mapping yaml.safe_load reads from its frontmatter
Scaffold(skill_name) ==
    [root |-> "dir",
     dirname |-> skill_name,
     manifest |-> ManifestFile(ScaffoldManifest(skill_name)),
     refs |-> RefsDir({ RefFile(ScaffoldReference, "ok", 3) }),
     others |-> <<>>,
     outside |-> {},
     yaml |-> IF Head(skill_name) \in YamlIndicators THEN "error" ELSE "mapping",
     name |-> YamlPlain(skill_name),
     description |-> PyStr(<<"D","e","s","c","r","i","b","e"," ","w","h","a","t"," ","t","h","e"," ",BQ>> \o skill_name
                           \o <<BQ," ","s","k","i","l","l"," ","d","o","e","s"," ","a","n","d"," ","w","h","e","n"," ","t","o"," ","u","s","e"," ","i","t",".">>),
     license |-> Absent,
     compatibility |-> PyStr(<<"A","d","d"," ","s","u","p","p","o","r","t","e","d"," ","v","e","r","s","i","o","n","s","/","p","l","a","t","f","o","r","m","s"," ","h","e","r","e">>),
     metadata |-> PyDict(<< KV(<<"s","k","i","l","l","_","v","e","r","s","i","o","n">>, PyStr(<<"0",".","1",".","0">>)),
                            KV(<<"o","w","n","e","r">>, PyStr(<<>>)) >>),
     allowed_tools |-> Absent,
     triggers |-> PyList(<< YamlPlain(skill_name) >>),
     references |-> PyList(<< PyStr(ScaffoldReference) >>),
     activation |-> PyDict(<< KV(KeyMode, PyStr(ModeFuzzy)),
                              KV(KeyTriggers, PyList(<< YamlPlain(skill_name) >>)),
                              KV(KeyPriority, PyStr(PriorityNormal)) >>)]

\* create (lines 476-538)
Create ==
    /\ cli.command = "create"
    /\ cli.phase = "args"
    /\ LET skill_name == NormalizeSkillName(cli.name.v) IN
       IF skill_name = <<>> THEN ExitCommand(cli, "usage")
       ELSE IF (\E e \in cli.registry : e.name = skill_name) /\ ~cli.force
       THEN ExitCommand(cli, "usage")
       ELSE ExitCommand([cli EXCEPT !.registry =
                            CopyDir(@, skill_name, 0, Scaffold(skill_name))], "ok")
    /\ UNCHANGED earlier

\* `verify <name>` for the name a finished create has printed, up to the call of
\* verify_skill_directory (lines 667-681); resolve_skill_source finds the name in
\* the registry
VerifyCommand ==
    /\ cli.command = "create"
    /\ cli.phase = "exited"
    /\ cli.exit = "ok"
    /\ LET skill_name == NormalizeSkillName(cli.name.v)
           found == CHOOSE e \in cli.registry : e.name = skill_name
       IN /\ cli' = [cli EXCEPT !.command = "verify", !.phase = "loop",
                                !.exit = "running", !.name = PyStr(skill_name)]
          /\ bundle' = found.bundle
    /\ result' = NewResult
    /\ pc' = "start"
    /\ UNCHANGED << exc, earlier, added >>

\* verify after verify_skill_directory has returned: _enforce_gate (lines 682-683,
\* 286-293)
VerifyGate ==
    /\ cli.command = "verify"
    /\ cli.phase = "loop"
    /\ pc = "done"
    /\ LET gate == GatePassed(result, cli.gate) IN
       ExitCommand(cli, IF gate.raised THEN "usage"
                        ELSE IF gate.passed THEN "ok" ELSE "exit1")
    /\ UNCHANGED earlier

NextCli ==
    \/ Next
    \/ RegisterResolve
    \/ RegisterGate
    \/ RegisterFinish
    \/ Create
    \/ VerifyCommand
    \/ VerifyGate
    \/ CommandCrash

\* The command lines run.  For register: up to MaxSources paths, or one directory
\* holding two bundles; the bundles pass both gates, the spec gate only, or no
\* gate, make verify_skill_directory raise, hold no SKILL.md, or do not exist.
MaxSources == 2

Named(b, n) == [b EXCEPT !.dirname = n, !.name = PyStr(n)]

RegisterBundles ==
    << ValidBundle,
       Named(ValidBundle, <<"m","y","-","s","k","i","l","l">>),
       [Named(ValidBundle, <<"l","a","x">>) EXCEPT !.activation = Absent, !.triggers = Absent],
       [Named(ValidBundle, <<"b","a","d">>) EXCEPT !.description = Absent],
       [Named(ValidBundle, <<"o","d","d">>) EXCEPT !.activation =
           PyDict(<< KV(KeyMode, PyList(<< PyStr(ModeFuzzy) >>)),
                     KV(KeyTriggers, PyList(<< PyStr(<<"x">>) >>)),
                     KV(KeyPriority, PyStr(PriorityNormal)) >>)],
       [Named(ValidBundle, <<"e","m","p","t","y">>) EXCEPT
           !.manifest = [kind |-> "absent", read |-> "ok", lines |-> <<>>]],
       Normalize([Named(ValidBundle, <<"g","o","n","e">>) EXCEPT !.root = "missing"]) >>

PathSource(i) == [kind |-> "path", bundles |-> << RegisterBundles[i] >>]
ParentSource(i, j) ==
    [kind |-> "parent", bundles |-> << RegisterBundles[i], RegisterBundles[j] >>]

RegisterSources ==
    UNION { [1..n -> { PathSource(i) : i \in 1..Len(RegisterBundles) }] : n \in 1..MaxSources }
    \cup { << ParentSource(ij[1], ij[2]) >> :
               ij \in { p \in (1..Len(RegisterBundles)) \X (1..Len(RegisterBundles)) :
                            p[1] # p[2] } }

RegisterCommands ==
    { [NoCli EXCEPT !.command = "register", !.phase = "args", !.raw = raw,
                    !.gate = gate, !.name = name, !.install = install] :
          raw \in RegisterSources,
          gate \in { GateSpec, GateStrict, <<" ","S","t","r","i","c","t"," ">>, <<"f","a","s","t">> },
          name \in { None, PyStr(<<"s","k","-","1">>) },
          install \in BOOLEAN }

\* For create: names that normalisation changes, empties, or leaves with characters
\* or a length the name rule refuses, and words YAML does not read as strings;
\* the registry is empty or holds my-skill already.
CreateNames ==
    { <<"m","y","-","s","k","i","l","l">>, <<" ","M","y","_","S","k","i","l","l"," ">>, <<"a"," "," ","b">>, <<"-","x","-","-">>, <<"_","_","_">>, <<"c","+","+">>, <<"1","2","3">>, <<"t","r","u","e">>, <<"@","x">>,
      Rep("a", MaxNameLen), Rep("a", MaxNameLen + 1) }

CreateCommands ==
    { [NoCli EXCEPT !.command = "create", !.phase = "args", !.name = PyStr(name),
                    !.gate = gate, !.force = force, !.registry = registry] :
          name \in CreateNames,
          gate \in { GateSpec, GateStrict },
          force \in BOOLEAN,
          registry \in { {}, { [name |-> <<"m","y","-","s","k","i","l","l">>, src |-> 0,
                                bundle |-> Named(ValidBundle, <<"m","y","-","s","k","i","l","l">>)] } } }

InitCli ==
    /\ cli \in RegisterCommands \cup CreateCommands
    /\ bundle = ValidBundle
    /\ pc = "idle"
    /\ result = NewResult
    /\ exc = "none"
    /\ earlier = <<>>
    /\ added = 0

SpecCli == InitCli /\ [][NextCli]_vars

----------------------------------------------------------------------------
(* Properties.                                                             *)

\* verify_skill_directory has returned its result
Returned == pc = "done"

SpecErrorCount == Len(ErrorsOf(result.spec_issues))
SpecWarningCount == Len(WarningsOf(result.spec_issues))
StrictErrorCount == Len(ErrorsOf(result.issues))
StrictWarningCount == Len(WarningsOf(result.issues))

Max(a, b) == IF a >= b THEN a ELSE b
Min(a, b) == IF a <= b THEN a ELSE b
Clamp(x) == Max(0, Min(100, x))

\* the ways the bundle fails structurally
ManifestMissing == bundle.root = "dir" /\ bundle.manifest.kind = "absent"
ManifestRead ==
    bundle.root = "dir" /\ bundle.manifest.kind = "file" /\ bundle.manifest.read = "ok"
NoDelimiterPair == ManifestRead /\ ~SplitFrontmatter(bundle.manifest.lines).ok
ParseFailure ==
    /\ ManifestRead
    /\ SplitFrontmatter(bundle.manifest.lines).ok
    /\ SafeLoad(bundle, SplitFrontmatter(bundle.manifest.lines).fm) # "mapping"
StructuralFailure ==
    \/ bundle.root # "dir"
    \/ ManifestMissing
    \/ bundle.root = "dir" /\ bundle.manifest.kind # "absent" /\ ~ManifestRead
    \/ NoDelimiterPair
    \/ ParseFailure

\* C1: a returned result never has strict_passed true while spec_passed is false.
C1_StrictImpliesSpec == Returned => (result.strict_passed => result.spec_passed)

\* a returned result that fails spec although its strict grade reaches the threshold
C1_Witness ==
    /\ Returned
    /\ ~result.spec_passed
    /\ result.strict_grade >= result.strict_threshold
    /\ ~result.strict_passed

\* how many further findings the grade of a returned result is recomputed with
MaxCount == 30

\* C2: in a returned result spec_grade = clamp(100 - 25*errors - 4*warnings, 0, 100)
\* over the spec findings and strict_grade = clamp(100 - 15*errors - 3*warnings, 0, 100)
\* over the strict findings; both are in 0..100, and recomputing either grade with
\* more errors or with more warnings than the result holds never increases it.
C2_GradeFormula ==
    Returned =>
        /\ result.spec_grade = Clamp(100 - 25 * SpecErrorCount - 4 * SpecWarningCount)
        /\ result.strict_grade = Clamp(100 - 15 * StrictErrorCount - 3 * StrictWarningCount)
        /\ result.spec_grade \in 0..100
        /\ result.strict_grade \in 0..100
        /\ \A d \in 0..MaxCount :
             /\ CalcGrade(SpecErrorCount + d + 1, SpecWarningCount,
                          SpecErrorWeight, SpecWarningWeight)
                   <= CalcGrade(SpecErrorCount + d, SpecWarningCount,
                                SpecErrorWeight, SpecWarningWeight)
             /\ CalcGrade(SpecErrorCount, SpecWarningCount + d + 1,
                          SpecErrorWeight, SpecWarningWeight)
                   <= CalcGrade(SpecErrorCount, SpecWarningCount + d,
                                SpecErrorWeight, SpecWarningWeight)
             /\ CalcGrade(StrictErrorCount + d + 1, StrictWarningCount,
                          StrictErrorWeight, StrictWarningWeight)
                   <= CalcGrade(StrictErrorCount + d, StrictWarningCount,
                                StrictErrorWeight, StrictWarningWeight)
             /\ CalcGrade(StrictErrorCount, StrictWarningCount + d + 1,
                          StrictErrorWeight, StrictWarningWeight)
                   <= CalcGrade(StrictErrorCount, StrictWarningCount + d,
                                StrictErrorWeight, StrictWarningWeight)

\* a returned result whose strict deductions exceed 100, so that the floor applies
C2_Witness ==
    /\ Returned
    /\ 15 * StrictErrorCount + 3 * StrictWarningCount > 100
    /\ result.strict_grade = 0
    /\ result.spec_grade > 0 /\ result.spec_grade < 100

\* C3: in a returned result spec_passed holds exactly when the spec finding list has
\* no error, whatever the number of spec warnings and the spec grade.
C3_SpecPassedIffNoError == Returned => (result.spec_passed <=> SpecErrorCount = 0)

\* a returned result that passes spec with so many warnings that its spec grade is 0
C3_Witness ==
    /\ Returned
    /\ result.spec_passed
    /\ SpecWarningCount >= 25
    /\ result.spec_grade = 0

\* C4: in a returned result strict_passed holds exactly when spec_passed holds and
\* strict_grade >= 80; strict_threshold is 80 in every state of the verification.
C4_StrictPassedIff ==
    /\ result.strict_threshold = 80
    /\ Returned =>
         (result.strict_passed <=> (result.spec_passed /\ result.strict_grade >= 80))

\* a returned result that passes strict with findings, and so with a grade below 100
C4_Witness ==
    /\ Returned
    /\ result.strict_passed
    /\ result.strict_grade < 85
    /\ StrictErrorCount = 1

\* C5: when SKILL.md is missing or has no '---' delimiter pair, the returned result
\* fails both profiles and each error list holds exactly one entry.
C5_OneErrorPerProfile ==
    (Returned /\ (ManifestMissing \/ NoDelimiterPair)) =>
        /\ ~result.spec_passed
        /\ ~result.strict_passed
        /\ SpecErrorCount = 1
        /\ StrictErrorCount = 1

FatalMessages ==
    { MsgNotDirectory, MsgMissingFile, MsgNotUtf8, MsgUnableToRead, MsgNoFrontmatter,
      MsgInvalidYaml, MsgNotMapping }

\* C6: when the frontmatter block fails to parse or parses to something that is not
\* a mapping, each profile's list holds exactly one error finding, the fatal one.
C6_ParseFailureShortCircuits ==
    (Returned /\ ParseFailure) =>
        /\ SpecErrorCount = 1
        /\ StrictErrorCount = 1
        /\ \A i \in 1..Len(result.issues) :
              result.issues[i].level = "error" => result.issues[i].message \in FatalMessages

PastConventions ==
    /\ pc \in {"taxonomy", "spec", "body", "guidance", "finalize", "done"}
    /\ result.frontmatter.t = "frontmatter"

HasStrictError(message) ==
    \E i \in 1..Len(result.issues) :
        result.issues[i].level = "error" /\ result.issues[i].message = message

\* C8: once the frontmatter has parsed to a mapping, the activation rule and the
\* version-governance rule are evaluated whatever the references field holds: every
\* error they produce for the frontmatter is in the strict finding list.
C8_ActivationAndVersionAlwaysRun ==
    PastConventions =>
        LET expected == ValidateActivation(result.frontmatter.v).findings
                        \o ValidateVersionAndCompatibility(result.frontmatter.v)
        IN \A i \in 1..Len(expected) : HasStrictError(expected[i].message)

ActivationMessages ==
    { MsgActivationRequired, MsgActivationMode, MsgActivationTriggers,
      MsgActivationPriority }

\* the strict findings that mention activation
ActivationFindings == SelectSeq(result.issues, LAMBDA f : f.message \in ActivationMessages)

\* activation: {mode: fuzzy, triggers: ["x"], priority: normal}
HasGoodActivation ==
    /\ IsDict(bundle.activation)
    /\ Len(bundle.activation.v) = 3
    /\ \A i \in 1..3 : bundle.activation.v[i].k = GoodActivation.v[i].k
    /\ MapGet(bundle.activation, KeyMode).t = "str"
    /\ MapGet(bundle.activation, KeyMode).v = ModeFuzzy
    /\ MapGet(bundle.activation, KeyPriority).t = "str"
    /\ MapGet(bundle.activation, KeyPriority).v = PriorityNormal
    /\ MapGet(bundle.activation, KeyTriggers).t = "list"
    /\ Len(MapGet(bundle.activation, KeyTriggers).v) = 1
    /\ MapGet(bundle.activation, KeyTriggers).v[1].t = "str"
    /\ MapGet(bundle.activation, KeyTriggers).v[1].v = <<"x">>

\* C9: in the result returned for a parsed mapping, a frontmatter without the
\* activation key has exactly one strict error mentioning activation, and a
\* frontmatter with activation {mode: fuzzy, triggers: ["x"], priority: normal} has
\* no strict finding mentioning activation, whatever the other fields hold.
C9_ActivationFindings ==
    (Returned /\ result.frontmatter.t = "frontmatter") =>
        /\ bundle.activation.t = "absent" =>
              /\ Len(ActivationFindings) = 1
              /\ ActivationFindings[1].level = "error"
        /\ HasGoodActivation => Len(ActivationFindings) = 0

\* C10: verify_skill_directory never raises: whatever the bundle holds, and whichever
\* read of SKILL.md or of a reference file fails, no exception reaches the caller.
C10_NeverRaises == pc # "raised"

\* the second call has returned
ReturnedAgain == Returned /\ Len(earlier) = 1

\* C11: adding any number of top-level entries with unrecognised names to a bundle
\* leaves spec_passed and strict_passed as they were before the entries were added.
C11_LayoutNeverBlocks ==
    (ReturnedAgain /\ added > 0) =>
        /\ result.spec_passed = earlier[1].spec_passed
        /\ result.strict_passed = earlier[1].strict_passed

\* the frontmatter was parsed and both profiles' field rules have run
PastSpecValidation ==
    /\ pc \in {"body", "guidance", "finalize", "done"}
    /\ result.frontmatter.t = "frontmatter"

NameMessages ==
    { MsgNameRequired, MsgNameLength, MsgNameChars, MsgNameEdge, MsgNameDouble,
      MsgNameParent }

NameErrors(list) ==
    SelectSeq(list, LAMBDA f : f.level = "error" /\ f.message \in NameMessages)

\* a string of 1-64 characters of a-z, 0-9 and "-", without a hyphen at either end or
\* two in a row, that is the directory name
AcceptableName ==
    /\ bundle.name.t = "str"
    /\ LET s == bundle.name.v IN
       /\ Len(s) \in 1..64
       /\ \A i \in 1..Len(s) :
             s[i] \in {"a","b","c","d","e","f","g","h","i","j","k","l","m","n","o","p","q",
                       "r","s","t","u","v","w","x","y","z",
                       "0","1","2","3","4","5","6","7","8","9","-"}
       /\ s[1] # "-"
       /\ s[Len(s)] # "-"
       /\ \A i \in 1..(Len(s) - 1) : ~(s[i] = "-" /\ s[i + 1] = "-")
       /\ s = bundle.dirname

\* C12: the name rule records no error in either profile exactly when `name` is a
\* string of 1-64 characters matching ^[a-z0-9-]{1,64}$ with no leading, trailing or
\* consecutive hyphen that equals the directory name; otherwise each profile records
\* at least one name error, and both profiles record the same number of them.
C12_NameRule ==
    PastSpecValidation =>
        /\ AcceptableName <=>
              (Len(NameErrors(result.issues)) = 0 /\ Len(NameErrors(result.spec_issues)) = 0)
        /\ ~AcceptableName =>
              (Len(NameErrors(result.issues)) >= 1 /\ Len(NameErrors(result.spec_issues)) >= 1)
        /\ Len(NameErrors(result.issues)) = Len(NameErrors(result.spec_issues))

\* `My_Skill` in directory `my-skill`: a character error and a directory mismatch
C12_Witness ==
    /\ Returned
    /\ result.frontmatter.t = "frontmatter"
    /\ bundle.name.t = "str"
    /\ bundle.name.v = <<"M","y","_","S","k","i","l","l">>
    /\ bundle.dirname = <<"m","y","-","s","k","i","l","l">>
    /\ Len(NameErrors(result.issues)) = 2
    /\ Len(NameErrors(result.spec_issues)) = 2

\* the frontmatter was parsed and the taxonomy rule has returned
PastTaxonomy ==
    /\ pc \in {"spec", "body", "guidance", "finalize", "done"}
    /\ result.frontmatter.t = "frontmatter"

\* a regular file under references/ whose name ends in .md, in any case
IsMarkdownFile(f) ==
    /\ f.kind = "file"
    /\ LET name == f.parts[Len(f.parts)] IN
       /\ Len(name) > 3
       /\ ToLower(SubSeq(name, Len(name) - 2, Len(name))) = <<".", "m", "d">>

TenCategories ==
    { <<"a","p","i">>, <<"a","r","c","h","i","t","e","c","t","u","r","e">>, <<"e","x","a","m","p","l","e","s">>, <<"h","o","o","k","s">>, <<"m","i","g","r","a","t","i","o","n">>, <<"m","i","s","c">>, <<"p","a","t","t","e","r","n","s">>,
      <<"p","e","r","f","o","r","m","a","n","c","e">>, <<"t","y","p","e","s">>, <<"v","a","l","i","d","a","t","i","o","n">> }

\* a strict taxonomy error that names the file
HasTaxonomyError(f) ==
    \E i \in 1..Len(result.issues) :
        /\ result.issues[i].level = "error"
        /\ result.issues[i].message \in {MsgTaxonomyFolder, MsgTaxonomyCategory}
        /\ Last(result.issues[i].args) = AsPosix(f.parts)

\* C13: for every Markdown file under references/, a strict taxonomy error is recorded
\* exactly when its path from the bundle root has fewer than 3 segments or its second
\* segment is not one of the ten categories.
C13_TaxonomyErrors ==
    PastTaxonomy =>
        \A f \in bundle.refs.files :
            IsMarkdownFile(f) =>
                (HasTaxonomyError(f) <=> (Len(f.parts) < 3 \/ f.parts[2] \notin TenCategories))

\* references/overview.md has a taxonomy error, references/misc/overview.md has none
C13_Witness ==
    /\ Returned
    /\ result.frontmatter.t = "frontmatter"
    /\ \E f, g \in bundle.refs.files :
          /\ f.parts = << References, <<"o","v","e","r","v","i","e","w",".","m","d">> >>
          /\ g.parts = << References, <<"m","i","s","c">>, <<"o","v","e","r","v","i","e","w",".","m","d">> >>
          /\ HasTaxonomyError(f)
          /\ ~HasTaxonomyError(g)

DigitChars == {"0", "1", "2", "3", "4", "5", "6", "7", "8", "9"}
ContainsDigit(s) == \E i \in 1..Len(s) : s[i] \in DigitChars

\* some metadata key containing "version", in any case, has a string value with a digit
VersionKeyPinned ==
    /\ bundle.metadata.t = "map"
    /\ \E i \in 1..Len(bundle.metadata.v) :
          LET k == bundle.metadata.v[i].k
              v == bundle.metadata.v[i].v
          IN /\ k.t = "str"
             /\ \E j \in 1..(Len(k.v) - 6) : ToLower(SubSeq(k.v, j, j + 6)) = <<"v","e","r","s","i","o","n">>
             /\ v.t = "str"
             /\ ContainsDigit(v.v)

\* the top-level compatibility value is a string with a digit
CompatibilityPinned == bundle.compatibility.t = "str" /\ ContainsDigit(bundle.compatibility.v)

\* C14: in the result for a parsed mapping the strict 'version appears unpinned' error
\* is absent exactly when some metadata key containing "version" has a value with a
\* digit or the top-level compatibility value contains a digit.
C14_VersionPin ==
    (Returned /\ result.frontmatter.t = "frontmatter") =>
        (~HasStrictError(MsgVersionUnpinned) <=> (VersionKeyPinned \/ CompatibilityPinned))

\* a non-empty list of strings that are not blank
ListsReferences ==
    /\ bundle.references.t = "list"
    /\ Len(bundle.references.v) > 0
    /\ \A i \in 1..Len(bundle.references.v) :
          /\ bundle.references.v[i].t = "str"
          /\ \E j \in 1..Len(bundle.references.v[i].v) :
                bundle.references.v[i].v[j] \notin {" ", "\t"}

\* a strict error with one of the messages that quotes the listed path
HasReferenceError(messages, ref) ==
    \E i \in 1..Len(result.issues) :
        /\ result.issues[i].level = "error"
        /\ result.issues[i].message \in messages
        /\ result.issues[i].args = << ref >>

ListedPathMessages == { MsgReferencesAbsolute, MsgReferencesTraverse, MsgReferencesNotFound }

\* C15: in every state after the frontmatter conventions rule, an absent `references`
\* key has the 'field is required' error, a value that is not a non-empty list of
\* non-blank strings has the 'must be a non-empty list' error, and every listed entry
\* that is absolute, holds a `..` segment or does not exist under the bundle root has an
\* error that quotes it.
C15_ReferencesChecked ==
    PastConventions =>
        /\ bundle.references.t = "absent" => HasStrictError(MsgReferencesRequired)
        /\ (bundle.references.t # "absent" /\ ~ListsReferences)
              => HasStrictError(MsgReferencesList)
        /\ ListsReferences =>
              \A i \in 1..Len(bundle.references.v) :
                  LET ref == bundle.references.v[i].v IN
                  /\ ref[1] = "/" => HasReferenceError({MsgReferencesAbsolute}, ref)
                  /\ (\E j \in 1..Len(PathParts(ref)) : PathParts(ref)[j] = <<".", ".">>)
                        => HasReferenceError(ListedPathMessages, ref)
                  /\ ResolvedKind(bundle, bundle.dirname, ref) = "none"
                        => HasReferenceError(ListedPathMessages, ref)

\* a listed relative path without `..` that does not exist, with its 'not found' error
C15_Witness ==
    /\ Returned
    /\ result.frontmatter.t = "frontmatter"
    /\ ListsReferences
    /\ \E i \in 1..Len(bundle.references.v) :
          LET ref == bundle.references.v[i].v IN
          /\ ref[1] # "/"
          /\ ResolvedKind(bundle, bundle.dirname, ref) = "none"
          /\ HasReferenceError({MsgReferencesNotFound}, ref)

\* C16: no step of verify_skill_directory changes the bundle: its entries and the
\* contents of its files are after the call what they were before it.
C16_NeverMutates == [][bundle' = bundle]_vars

\* a call has returned on a directory with a manifest, reference files and other entries
C16_Witness ==
    /\ Returned
    /\ result.frontmatter.t = "frontmatter"
    /\ bundle.manifest.kind = "file"
    /\ bundle.refs.kind = "dir"
    /\ bundle.refs.files # {}
    /\ \E i \in 1..Len(bundle.others) : bundle.others[i].name = DsStore

HasDelimiterPair ==
    /\ ManifestRead
    /\ LET lines == bundle.manifest.lines IN
       /\ Len(lines) >= 2
       /\ Strip(lines[1]) = <<"-", "-", "-">>
       /\ \E j \in 2..Len(lines) : Strip(lines[j]) = <<"-", "-", "-">>

LayoutMessages == { MsgUnexpectedDir, MsgUnexpectedFile }

\* C18: in a returned result frontmatter is set only if SKILL.md begins with a '---'
\* line, has a later closing '---' line and the block between them parsed to a mapping;
\* on every structural failure frontmatter is None and the lists hold no finding of a
\* rule: nothing but the fatal error and the advisory top-level warnings.
C18_FrontmatterInvariant ==
    Returned =>
        /\ result.frontmatter.t # "none" =>
              /\ HasDelimiterPair
              /\ SafeLoad(bundle, SplitFrontmatter(bundle.manifest.lines).fm) = "mapping"
        /\ StructuralFailure =>
              /\ result.frontmatter.t = "none"
              /\ \A i \in 1..Len(result.spec_issues) :
                    result.spec_issues[i].message \in FatalMessages
              /\ \A i \in 1..Len(result.issues) :
                    result.issues[i].message \in FatalMessages \cup LayoutMessages

\* metadata.compatibility holds a value: a string that is not blank or a mapping that
\* is not empty
HasMetadataCompatibility ==
    /\ bundle.metadata.t = "map"
    /\ \E i \in 1..Len(bundle.metadata.v) :
          LET k == bundle.metadata.v[i].k
              v == bundle.metadata.v[i].v
          IN /\ k.t = "str"
             /\ k.v = <<"c","o","m","p","a","t","i","b","i","l","i","t","y">>
             /\ \/ v.t = "str" /\ \E j \in 1..Len(v.v) : v.v[j] \notin {" ", "\t"}
                \/ v.t = "map" /\ Len(v.v) > 0

\* C19: in the result for a parsed mapping the strict 'version governance requires
\* compatibility metadata' error is recorded exactly when the frontmatter has neither
\* a top-level compatibility string nor a metadata.compatibility value.
C19_CompatibilityRequired ==
    (Returned /\ result.frontmatter.t = "frontmatter") =>
        (HasStrictError(MsgCompatRequired)
            <=> (bundle.compatibility.t # "str" /\ ~HasMetadataCompatibility))

\* a strict error, with one of the messages, that names the reference file
HasFileError(messages, f) ==
    \E i \in 1..Len(result.issues) :
        /\ result.issues[i].level = "error"
        /\ result.issues[i].message \in messages
        /\ Last(result.issues[i].args) = AsPosix(f.parts)

\* C20: every Markdown file under references/ with more than 800 lines has a strict
\* error that names it, at any depth and in any category folder; from the third path
\* segment on, whatever the category folder, that error is the 'exceeds 800 lines' one.
C20_LongReferenceFiles ==
    PastTaxonomy =>
        \A f \in bundle.refs.files :
            (IsMarkdownFile(f) /\ f.read = "ok" /\ f.nlines > 800) =>
                /\ HasFileError({MsgRefTooLong, MsgTaxonomyFolder, MsgTaxonomyCategory}, f)
                /\ Len(f.parts) >= 3 => HasFileError({MsgRefTooLong}, f)

\* files of 801 lines at depth 2 and at depth 4, each with a strict error
C20_Witness ==
    /\ Returned
    /\ result.frontmatter.t = "frontmatter"
    /\ \E f, g \in bundle.refs.files :
          /\ IsMarkdownFile(f) /\ f.nlines > 800 /\ Len(f.parts) = 2
          /\ IsMarkdownFile(g) /\ g.nlines > 800 /\ Len(g.parts) = 4
          /\ HasFileError({MsgTaxonomyFolder}, f)
          /\ HasFileError({MsgRefTooLong}, g)

HasStrictWarning(message) ==
    \E i \in 1..Len(result.issues) :
        result.issues[i].level = "warning" /\ result.issues[i].message = message

\* the Markdown files under references/, and those of them with fewer than 100 lines
MarkdownFiles == {f \in bundle.refs.files : IsMarkdownFile(f)}
ShortMarkdownFiles ==
    {f \in MarkdownFiles : f.read = "ok" /\ f.nlines < MicroFileLines}

\* C21: with n >= 5 Markdown files under references/, of which m have fewer than
\* 100 lines, the fragmentation warning is in the strict list exactly when
\* 2*m >= n; with fewer than five files it is never there.
C21_FragmentationWarning ==
    (PastTaxonomy /\ bundle.refs.kind = "dir") =>
        LET n == Cardinality(MarkdownFiles)
            m == Cardinality(ShortMarkdownFiles)
        IN HasStrictWarning(MsgFragmentation) <=> (n >= FragmentMinFiles /\ 2 * m >= n)

\* the brain-only rule has run on a manifest whose frontmatter parsed
PastGuidance ==
    /\ pc \in {"finalize", "done"}
    /\ result.frontmatter.t = "frontmatter"

\* the lines of the manifest that are fences, and for a fence the number of
\* fences up to it
FenceLines(lines) == {i \in 1..Len(lines) : StartsWith(Strip(lines[i]), Fence)}
FencesUpTo(lines, i) == Cardinality({j \in FenceLines(lines) : j <= i})

\* a fenced block runs from an opening fence (the first, third, ... fence) to the
\* next fence, or to the end of the text; its size leaves the fences out
BlockOpeners(lines) == {i \in FenceLines(lines) : FencesUpTo(lines, i) % 2 = 1}
BlockSize(lines, i) ==
    LET later == {j \in FenceLines(lines) : j > i}
        close == IF later = {} THEN Len(lines) + 1
                 ELSE CHOOSE j \in later : \A k \in later : j <= k
    IN close - i - 1
FencedCodeLines(lines) ==
    Cardinality({i \in 1..Len(lines) :
                    i \notin FenceLines(lines) /\ FencesUpTo(lines, i) % 2 = 1})

\* C22: the large-code error is in the strict list exactly when some fenced block
\* has more than 25 lines or the fenced blocks hold more than 60 lines in all,
\* fences not counted; the fenced-code warning is there exactly when the manifest
\* has a fenced block.
C22_FencedCode ==
    PastGuidance =>
        LET lines == bundle.manifest.lines IN
        /\ HasStrictError(MsgLargeCode) <=>
               \/ \E i \in BlockOpeners(lines) : BlockSize(lines, i) > MaxBlockLines
               \/ FencedCodeLines(lines) > MaxCodeLines
        /\ HasStrictWarning(MsgFencedCode) <=> BlockOpeners(lines) # {}

\* the error is recorded for blocks that are each within 25 lines and hold more
\* than 60 lines together
C22_Witness ==
    /\ PastGuidance
    /\ HasStrictError(MsgLargeCode)
    /\ HasStrictWarning(MsgFencedCode)
    /\ \A i \in BlockOpeners(bundle.manifest.lines) :
           BlockSize(bundle.manifest.lines, i) <= MaxBlockLines

\* the lines of the Markdown body, as the split has stored them
BodyOfManifest == IF result.body.t = "text" THEN result.body.v ELSE <<>>

\* C23: the brain-only findings depend on the Markdown body alone: the example
\* warning, the fenced-code warning and the large-code error are in the strict list
\* exactly when the body has an example heading, a fenced block, or fenced code
\* over the limits, whatever the frontmatter block holds.
C23_BodyOnly ==
    PastGuidance =>
        LET body == BodyOfManifest IN
        /\ HasStrictWarning(MsgExampleSections) <=> HasExampleHeading(body)
        /\ HasStrictWarning(MsgFencedCode) <=> BlockOpeners(body) # {}
        /\ HasStrictError(MsgLargeCode) <=>
               \/ \E i \in BlockOpeners(body) : BlockSize(body, i) > MaxBlockLines
               \/ FencedCodeLines(body) > MaxCodeLines

HasSpecError(message) ==
    \E i \in 1..Len(result.spec_issues) :
        result.spec_issues[i].level = "error" /\ result.spec_issues[i].message = message

\* the frontmatter block has a list-item line that starts with an unquoted @
HasAtItem ==
    /\ HasDelimiterPair
    /\ LET fm == SplitFrontmatter(bundle.manifest.lines).fm IN
       \E i \in 1..Len(fm) : MatchesAtItem(fm[i])

\* C24: when the frontmatter block has a list-item line starting with an unquoted
\* @, the returned result holds the YAML-safety error in the spec list as well as
\* in the strict list.
C24_YamlSafetyBothProfiles ==
    (Returned /\ HasAtItem) =>
        /\ HasStrictError(MsgYamlSafety)
        /\ HasSpecError(MsgYamlSafety)

DescriptionMessages == { MsgDescRequired, MsgDescLength, MsgDescShort, MsgDescShortSpec }
DescriptionFindings(list, level) ==
    SelectSeq(list, LAMBDA f : f.level = level /\ f.message \in DescriptionMessages)

\* the number of characters from the first to the last that is not a blank
TrimmedLength(s) ==
    LET inked == {i \in 1..Len(s) : s[i] \notin Space}
    IN IF inked = {} THEN 0
       ELSE (CHOOSE i \in inked : \A j \in inked : j <= i)
            - (CHOOSE i \in inked : \A j \in inked : i <= j) + 1

\* C25: each profile records a description error exactly when the value is not a
\* string or its trimmed length is 0 or above 1024, a description warning and no
\* error exactly when the trimmed length is 1-19, and neither for 20-1024.
C25_DescriptionRule ==
    PastSpecValidation =>
        LET bad == \/ bundle.description.t # "str"
                   \/ TrimmedLength(bundle.description.v) = 0
                   \/ TrimmedLength(bundle.description.v) > 1024
            short == /\ bundle.description.t = "str"
                     /\ TrimmedLength(bundle.description.v) \in 1..19
        IN \A list \in { result.issues, result.spec_issues } :
              /\ Len(DescriptionFindings(list, "error")) = (IF bad THEN 1 ELSE 0)
              /\ Len(DescriptionFindings(list, "warning")) = (IF short THEN 1 ELSE 0)

\* a padded description of 1024 characters has passed both profiles' rule
C25_Witness ==
    /\ PastSpecValidation
    /\ bundle.description.t = "str"
    /\ Len(bundle.description.v) > 1024
    /\ TrimmedLength(bundle.description.v) = 1024
    /\ DescriptionFindings(result.issues, "error") = <<>>
    /\ DescriptionFindings(result.spec_issues, "error") = <<>>

\* the place in the rule table of the rule a strict finding comes from, 0 for a
\* finding of no rule of the table (fatal errors, optional directories, layout)
RuleOf(f) ==
    CASE f.message \in NameMessages -> 1
      [] f.message \in DescriptionMessages -> 2
      [] f.message \in { MsgMustBeString, MsgTooLong } /\ f.args[1] = KeyLicense -> 3
      [] f.message \in { MsgMustBeString, MsgTooLong } /\ f.args[1] = KeyCompatibility -> 4
      [] f.message = MsgCompatLength -> 4
      [] f.message \in { MsgMetadataMapping, MsgMetadataKeys, MsgMetadataStructured } -> 5
      [] f.message \in { MsgToolsString, MsgToolsEmpty } -> 6
      [] f.message = MsgYamlSafety -> 7
      [] f.message = MsgTriggersRequired -> 8
      [] f.message \in { MsgReferencesList, MsgReferencesAbsolute, MsgReferencesTraverse,
                         MsgReferencesNotFound, MsgReferencesRequired } -> 9
      [] f.message \in { MsgRefsDirMissing, MsgRefsMustBeDir, MsgTaxonomyFolder,
                         MsgTaxonomyCategory, MsgRefUndecodable, MsgRefTooLong,
                         MsgEntryTaxonomy, MsgEntryCategory } -> 10
      [] f.message = MsgFragmentation -> 11
      [] f.message \in ActivationMessages -> 12
      [] f.message \in { MsgCompatRequired, MsgVersionUnpinned } -> 13
      [] f.message \in { MsgUnclosedFence, MsgExampleSections, MsgFencedCode,
                         MsgLargeCode, MsgManifestRatio } -> 14
      [] f.message = MsgNoBody -> 15
      [] f.message = MsgManifestLong -> 16
      [] OTHER -> 0

\* C26: in the strict list of a returned result, of two findings of different rules
\* of the rule table the one whose rule is listed earlier in the table comes first.
C26_RuleTableOrder ==
    Returned =>
        \A i, j \in 1..Len(result.issues) :
            LET a == RuleOf(result.issues[i])
                b == RuleOf(result.issues[j])
            IN (i < j /\ a # 0 /\ b # 0) => a <= b

\* C27: in every returned result the strict list holds at least as many errors as
\* the spec list, and at least as many warnings.
C27_StrictContainsSpec ==
    Returned =>
        /\ StrictErrorCount >= SpecErrorCount
        /\ StrictWarningCount >= SpecWarningCount

\* a returned result whose spec list holds an error and a warning
C27_Witness ==
    /\ Returned
    /\ result.frontmatter.t = "frontmatter"
    /\ SpecErrorCount >= 1
    /\ SpecWarningCount >= 1
    /\ StrictErrorCount > SpecErrorCount

\* C28: a result with strict_passed holds at most one strict error, has
\* 15*errors + 3*warnings <= 20 in the strict list and no error in the spec list;
\* and a result whose only finding is one error of the strict list has strict_passed.
C28_StrictGateArithmetic ==
    Returned =>
        /\ result.strict_passed =>
              /\ StrictErrorCount <= 1
              /\ 15 * StrictErrorCount + 3 * StrictWarningCount <= 20
              /\ (StrictErrorCount = 0 => StrictWarningCount <= 6)
              /\ (StrictErrorCount = 1 => StrictWarningCount <= 1)
              /\ SpecErrorCount = 0
        /\ (Len(result.issues) = 1 /\ StrictErrorCount = 1 /\ result.spec_issues = <<>>)
              => result.strict_passed

\* one strict-only error and nothing else: the bundle passes the strict gate
C28_Witness ==
    /\ Returned
    /\ Len(result.issues) = 1
    /\ StrictErrorCount = 1
    /\ result.spec_issues = <<>>
    /\ result.strict_passed

\* the gate option names a gate
GateKnown == Strip(ToLower(cli.gate)) \in { GateSpec, GateStrict }

\* the i-th resolved source has been verified and its result passes the gate
PassedGate(i) ==
    /\ i \in 1..Len(earlier)
    /\ ~GatePassed(earlier[i], cli.gate).raised
    /\ GatePassed(earlier[i], cli.gate).passed

\* every directory in the registry was copied from a source that had passed the gate
OnlyPassingCopied == \A e \in cli.registry : PassedGate(e.src)

\* a batch that has ended has verified every one of its sources
BatchProcessesAll ==
    (cli.phase = "exited" /\ cli.batch /\ GateKnown) => Len(earlier) = Len(cli.resolved)

\* a single source that fails the gate ends the command with exit code 1, nothing copied
SingleFailureStops ==
    (cli.phase = "exited" /\ ~cli.batch /\ GateKnown /\ Len(earlier) = 1
         /\ ~PassedGate(1))
        => (cli.exit = "exit1" /\ cli.registry = {})

\* C29: register copies a source into the registry only after
\* verify_skill_directory has passed the selected gate on it; in batch mode a
\* failing source is skipped and the later ones are still processed; a single
\* failing source ends the command with exit code 1 before any copy.
C29_RegisterBehindGate ==
    cli.command = "register" =>
        /\ OnlyPassingCopied
        /\ BatchProcessesAll
        /\ SingleFailureStops

\* C30: the scaffold create has written for a name it accepts passes verification:
\* the result `verify` gets for it has spec_passed and strict_passed.
C30_ScaffoldPasses ==
    (cli.command = "verify" /\ pc = "done") =>
        (result.spec_passed /\ result.strict_passed)

====
